---------------------------- MODULE Spec2Model ----------------------------
(***************************************************************************)
(* A model of the highlight stores and of the per-character compositor of  *)
(* the lumi reader (frontend/src/shared/highlight_manager.ts and           *)
(* frontend/src/components/lumi_span/lumi_span.ts, lumi_span_utils.ts).    *)
(*                                                                         *)
(* It also covers flattenTags, getSelectionInfo (selection_utils.ts), the   *)
(* answer-driven highlight store, the document index, the collapse         *)
(* manager, the reader's requests, the home gallery and the floating       *)
(* panel service.                                                          *)
(*                                                                         *)
(* The specifications of this module:                                      *)
(*   Spec          the HighlightManagerBase store driven by its calls;     *)
(*   SpecSpan      one <lumi-span> component: its properties are drawn in  *)
(*                 the initial state and calculateRenderedContent runs;    *)
(*   SpecFlatten   one top-level call of flattenTags on a drawn tag tree;  *)
(*   SpecResolver  one call of getSelectionInfo on a drawn selection over  *)
(*                 a drawn rendered document;                              *)
(*   SpecAnswers   the answer-driven store driven by its calls;            *)
(*   SpecDoc       the index of a drawn document, queried by span id;      *)
(*   SpecCollapse  the HistoryCollapseManager driven by its calls;         *)
(*   SpecReader    the reader's requests (handleDefine, handleAsk,         *)
(*                 fetchPersonalSummary) and the temporary answers, and    *)
(*                 SpecReaderSettling, the same with every awaited call    *)
(*                 settling;                                               *)
(*   SpecGallery   the home gallery's imports, listeners and snapshots;    *)
(*   SpecPanel     the FloatingPanelService driven by its calls.           *)
(***************************************************************************)
EXTENDS Integers, Sequences, FiniteSets, TLC

VARIABLES
    highlightedSpans,   \* HighlightManagerBase.highlightedSpans : Map<string, Highlight[]>
    highlightedImages,  \* HighlightManagerBase.highlightedImages : Set<string>
    calls,              \* the calls made on the store so far, oldest first
    span,               \* LumiSpanViz.span
    highlights,         \* LumiSpanViz.highlights
    font,               \* LumiSpanViz.font
    pc,                 \* "props" before calculateRenderedContent ran, "rendered" after
    path,               \* which branch calculateRenderedContent took
    formattingCounters, \* the local formattingCounters of calculateRenderedContent
    renderedContent,    \* LumiSpanViz.renderedContent, as the list of emitted units
    tagTree,            \* the `tags` argument of a top-level flattenTags call
    flattened,          \* the list that call returned
    flattenPc,          \* "input" before the call, "flattened" after
    document,           \* the rendered DOM: its nodes in document order
    windowSelection,    \* the Selection handed to getSelectionInfo
    selectionInfo,      \* what getSelectionInfo returned
    resolverPc,         \* "selected" before the call, "resolved" after
    lumiDoc,            \* the LumiDoc handed to new LumiDocManager
    lumiDocManager,     \* the maps the constructor built from it
    queriedSpanId,      \* the argument of the getSectionForSpan call
    sectionForSpan,     \* what getSectionForSpan returned
    spanById,           \* what getSpanById returned
    docPc,              \* "indexed" before the query, "queried" after
    answerCollapseState, \* HistoryCollapseManager.answerCollapseState
    lastCollapseCall,   \* the most recent call on the collapse manager
    collapseCallCount,  \* how many calls were made on it
    readerDocLoaded,    \* whether documentStateService.lumiDocManager is set
    dateNow,            \* what Date.now() returns
    requests,           \* the handler calls of the reader so far, oldest first
    temporaryAnswers,   \* HistoryService.temporaryAnswers
    galleryConnected,   \* whether the <home-gallery> element is in the document
    isLoadingMetadata,  \* HomeGallery.isLoadingMetadata
    imports,            \* the loadDocument calls of the gallery so far
    unsubscribeListeners, \* HomeGallery.unsubscribeListeners : Map<paperId, Unsubscribe>
    subscriptions,      \* the onSnapshot subscriptions made so far, oldest first
    paperStatus,        \* the status of each paper in the HistoryService
    handledSnapshot,    \* the snapshot the latest step handled, if it handled one
    isVisible,          \* FloatingPanelService.isVisible
    targetElement,      \* FloatingPanelService.targetElement
    contentProps,       \* FloatingPanelService.contentProps
    anchorCorner,       \* FloatingPanelService.anchorCorner
    menuCorner,         \* FloatingPanelService.menuCorner
    hasFlatContainer,   \* FloatingPanelService.hasFlatContainer
    panelCallCount      \* how many calls were made on the panel service

storeVars == <<highlightedSpans, highlightedImages, calls>>
spanVars == <<span, highlights, font, pc, path, formattingCounters, renderedContent>>
flattenVars == <<tagTree, flattened, flattenPc>>
resolverVars == <<document, windowSelection, selectionInfo, resolverPc>>
docVars ==
    <<lumiDoc, lumiDocManager, queriedSpanId, sectionForSpan, spanById, docPc>>
collapseVars == <<answerCollapseState, lastCollapseCall, collapseCallCount>>
readerVars == <<readerDocLoaded, dateNow, requests, temporaryAnswers>>
galleryVars ==
    <<galleryConnected, isLoadingMetadata, imports, unsubscribeListeners,
      subscriptions, paperStatus, handledSnapshot>>
panelVars ==
    <<isVisible, targetElement, contentProps, anchorCorner, menuCorner,
      hasFlatContainer, panelCallCount>>
serviceVars == <<collapseVars, readerVars, galleryVars, panelVars>>
otherVars == <<flattenVars, resolverVars, docVars, serviceVars>>
vars == <<storeVars, spanVars, otherVars>>

-----------------------------------------------------------------------------
(* Optional values (TypeScript `T | undefined`): <<>> or <<value>>.        *)
Absent == <<>>
Some(x) == <<x>>
IsPresent(o) == o # <<>>

(* Dictionaries (TypeScript object literals): functions on a set of keys.  *)
EmptyDict == [k \in {} |-> ""]

(* { ...a, ...b }: the keys of both, b's value where both have the key.    *)
Spread(a, b) ==
    [k \in (DOMAIN a) \cup (DOMAIN b) |-> IF k \in DOMAIN b THEN b[k] ELSE a[k]]

-----------------------------------------------------------------------------
(* HighlightManagerBase                                                    *)

MaxCalls == 3

StoreSpanIds == {"span-1", "span-2"}
UnknownSpanId == "span-9"
StoreColors == {"yellow", "cyan"}
ImagePaths == {"img-1", "img-2"}

Highlight(color, spanId, position, metadata) ==
    [color |-> color, spanId |-> spanId, position |-> position, metadata |-> metadata]

StoreHighlights == {Highlight(c, s, Absent, Absent) : c \in StoreColors, s \in StoreSpanIds}

AddInputs ==
    {<<>>} \cup {<<h>> : h \in StoreHighlights}
           \cup {<<h1, h2>> : h1 \in StoreHighlights, h2 \in StoreHighlights}

RemoveInputs ==
    {<<>>, <<"span-1">>, <<"span-2">>, <<UnknownSpanId>>,
     <<"span-1", "span-2">>, <<UnknownSpanId, "span-1">>}

(* Map.get(key) || [] / Map.get(key) ?? []                                 *)
getSpanHighlights(spans, spanId) ==
    IF spanId \in DOMAIN spans THEN spans[spanId] ELSE <<>>

(* Map.set(key, value)                                                     *)
MapSet(m, key, value) ==
    [k \in (DOMAIN m) \cup {key} |-> IF k = key THEN value ELSE m[k]]

(* Map.delete(key): no effect when the key is absent.                      *)
MapDelete(m, key) == [k \in (DOMAIN m) \ {key} |-> m[k]]

(* A slip in which an add replaces the list of the span.                   *)
RECURSIVE addHighlightsOverwriting(_, _)
addHighlightsOverwriting(spans, hs) ==
    IF hs = <<>> THEN spans
    ELSE addHighlightsOverwriting(MapSet(spans, Head(hs).spanId, <<Head(hs)>>), Tail(hs))

RECURSIVE addHighlights(_, _)
addHighlights(spans, hs) ==
    IF hs = <<>> THEN spans
    ELSE LET highlight == Head(hs)
             existing == getSpanHighlights(spans, highlight.spanId)
         IN  addHighlights(MapSet(spans, highlight.spanId, Append(existing, highlight)),
                           Tail(hs))

(* A slip in which a remove drops only the oldest highlight of the span.   *)
RECURSIVE removeHighlightsOneEach(_, _)
removeHighlightsOneEach(spans, spanIds) ==
    IF spanIds = <<>> THEN spans
    ELSE LET id == Head(spanIds)
             rest == Tail(getSpanHighlights(spans, id))
         IN  removeHighlightsOneEach(
                 IF id \in DOMAIN spans /\ rest # <<>>
                 THEN MapSet(spans, id, rest) ELSE MapDelete(spans, id),
                 Tail(spanIds))

RECURSIVE removeHighlights(_, _)
removeHighlights(spans, spanIds) ==
    IF spanIds = <<>> THEN spans
    ELSE removeHighlights(MapDelete(spans, Head(spanIds)), Tail(spanIds))

isImageHighlighted(imageStoragePath) == imageStoragePath \in highlightedImages

Call(op, arg) == [op |-> op, arg |-> arg]

StoreInit ==
    /\ highlightedSpans = EmptyDict
    /\ highlightedImages = {}
    /\ calls = <<>>

CallAddHighlights ==
    \E hs \in AddInputs :
        /\ Len(calls) < MaxCalls
        /\ highlightedSpans' = addHighlights(highlightedSpans, hs)
        /\ calls' = Append(calls, Call("addHighlights", hs))
        /\ UNCHANGED highlightedImages

CallRemoveHighlights ==
    \E ids \in RemoveInputs :
        /\ Len(calls) < MaxCalls
        /\ highlightedSpans' = removeHighlights(highlightedSpans, ids)
        /\ calls' = Append(calls, Call("removeHighlights", ids))
        /\ UNCHANGED highlightedImages

CallAddImageHighlight ==
    \E p \in ImagePaths :
        /\ Len(calls) < MaxCalls
        /\ highlightedImages' = highlightedImages \cup {p}
        /\ calls' = Append(calls, Call("addImageHighlight", <<p>>))
        /\ UNCHANGED highlightedSpans

CallRemoveImageHighlight ==
    \E p \in ImagePaths :
        /\ Len(calls) < MaxCalls
        /\ highlightedImages' = highlightedImages \ {p}
        /\ calls' = Append(calls, Call("removeImageHighlight", <<p>>))
        /\ UNCHANGED highlightedSpans

CallClearHighlights ==
    /\ Len(calls) < MaxCalls
    /\ highlightedSpans' = EmptyDict
    /\ highlightedImages' = {}
    /\ calls' = Append(calls, Call("clearHighlights", <<>>))

-----------------------------------------------------------------------------
(* LumiSpan, InnerTag and the properties of <lumi-span>                    *)

MaxLen == 2
MaxItems == 2

Alphabet == <<"p", "q", "r", "s", "t">>
Text(n) == [i \in 1..n |-> Alphabet[i]]

(* InnerTagName members used by the compositor.                            *)
A == "a"
MATH == "math"
MATH_DISPLAY == "math_display"
REFERENCE == "l-ref"
SPAN_REFERENCE == "s-ref"
FOOTNOTE == "footnote"

GENERAL_HIGHLIGHT_KEY == "general_highlight_key"
COLOR_HIGHLIGHT_KEY == "highlight_color"
HIGHLIGHT_METADATA_ANSWER_KEY == "answer"

Position(startIndex, endIndex) == [startIndex |-> startIndex, endIndex |-> endIndex]

InnerTag(tagName, position, metadata, children) ==
    [tagName |-> tagName, position |-> position, metadata |-> metadata,
     children |-> children]

(* The tag kinds and metadata the spans of the model carry.                *)
TagTemplates ==
    { [tagName |-> A, metadata |-> [href |-> "u1"]],
      [tagName |-> A, metadata |-> [href |-> "u2", title |-> "t2"]],
      [tagName |-> MATH, metadata |-> EmptyDict],
      [tagName |-> MATH_DISPLAY, metadata |-> EmptyDict],
      [tagName |-> REFERENCE, metadata |-> [id |-> "r1"]],
      [tagName |-> REFERENCE, metadata |-> [id |-> "rx, r2"]],
      [tagName |-> FOOTNOTE, metadata |-> [id |-> "f1"]],
      [tagName |-> FOOTNOTE, metadata |-> [id |-> "fx"]],
      [tagName |-> SPAN_REFERENCE, metadata |-> [id |-> "s2"]],
      [tagName |-> SPAN_REFERENCE, metadata |-> EmptyDict] }

(* Offsets, well-formed and malformed, for a text of n characters.         *)
Positions(n) == {Position(s, e) : s \in (-1)..n, e \in 0..(n + 1)}

LeafTags(n) ==
    {InnerTag(t.tagName, p, t.metadata, <<>>) : t \in TagTemplates, p \in Positions(n)}

(* The tag forests of exactly k tags over a text of n characters.          *)
RECURSIVE TagForests(_, _)
TagForests(n, k) ==
    IF k = 0 THEN {<<>>}
    ELSE UNION { { <<[t EXCEPT !.children = c]>> \o rest :
                       t \in LeafTags(n), c \in TagForests(n, j - 1),
                       rest \in TagForests(n, k - j) } : j \in 1..k }

(* The properties references, footnotes and referencedSpans.               *)
references == << [id |-> "r1"], [id |-> "r2"] >>
footnotes == << [id |-> "f1"] >>
referencedSpans == << [id |-> "s1"], [id |-> "s2"] >>

UserHighlights(spanId, n) ==
    {Highlight(c, spanId, p, Absent) :
        c \in StoreColors, p \in {Absent} \cup {Some(q) : q \in Positions(n)}}

AnswerHighlights(spanId, n) ==
    {Highlight("green", spanId, p, Some([answer |-> a])) :
        a \in {"ans-1", "ans-2"}, p \in {Absent} \cup {Some(q) : q \in Positions(n)}}

RECURSIVE SeqsOfLen(_, _)
SeqsOfLen(S, k) ==
    IF k = 0 THEN {<<>>} ELSE {Append(q, x) : q \in SeqsOfLen(S, k - 1), x \in S}

(* lumi_span_utils.ts: the highlights of the user-driven store, then those *)
(* of the answer-driven store.                                             *)
getSpanHighlightsFromManagers(spanId, highlightManager, answerHighlightManager) ==
    getSpanHighlights(highlightManager, spanId)
        \o getSpanHighlights(answerHighlightManager, spanId)

(* A slip in which the children get their parent's relative start, not its *)
(* absolute start, as offset.                                              *)
RECURSIVE flattenTagsRelativeOffset(_, _)
flattenTagsRelativeOffset(tags, parentOffset) ==
    IF tags = <<>> THEN <<>>
    ELSE LET tag == Head(tags)
             absolutePosition == Position(tag.position.startIndex + parentOffset,
                                          tag.position.endIndex + parentOffset)
         IN  <<[tag EXCEPT !.position = absolutePosition, !.children = <<>>]>>
                 \o (IF Len(tag.children) > 0
                     THEN flattenTagsRelativeOffset(tag.children, tag.position.startIndex)
                     ELSE <<>>)
                 \o flattenTagsRelativeOffset(Tail(tags), parentOffset)

(* A slip in which the subtree of a tag comes after the tag's siblings.    *)
RECURSIVE flattenTagsSiblingsFirst(_, _)
flattenTagsSiblingsFirst(tags, parentOffset) ==
    IF tags = <<>> THEN <<>>
    ELSE LET tag == Head(tags)
             absolutePosition == Position(tag.position.startIndex + parentOffset,
                                          tag.position.endIndex + parentOffset)
         IN  <<[tag EXCEPT !.position = absolutePosition, !.children = <<>>]>>
                 \o flattenTagsSiblingsFirst(Tail(tags), parentOffset)
                 \o (IF Len(tag.children) > 0
                     THEN flattenTagsSiblingsFirst(tag.children, absolutePosition.startIndex)
                     ELSE <<>>)

RECURSIVE flattenTags(_, _)
flattenTags(tags, parentOffset) ==
    IF tags = <<>> THEN <<>>
    ELSE LET tag == Head(tags)
             absolutePosition == Position(tag.position.startIndex + parentOffset,
                                          tag.position.endIndex + parentOffset)
         IN  <<[tag EXCEPT !.position = absolutePosition, !.children = <<>>]>>
                 \o (IF Len(tag.children) > 0
                     THEN flattenTags(tag.children, absolutePosition.startIndex)
                     ELSE <<>>)
                 \o flattenTags(Tail(tags), parentOffset)

-----------------------------------------------------------------------------
(* LumiSpanViz.createInsertionsMap                                         *)

(* metadata["id"] && ...: the key is there and its string is not empty.    *)
Truthy(metadata, key) == key \in DOMAIN metadata /\ metadata[key] # ""

(* id.split(",").map((s) => s.trim()) on the id strings of TagTemplates.   *)
SplitIds(id) == IF id = "rx, r2" THEN <<"rx", "r2">> ELSE <<id>>

(* Array.findIndex / indexOf on ids: the first 0-based index, or -1.       *)
FindIndex(list, id) ==
    LET hits == {k \in 1..Len(list) : list[k].id = id}
    IN  IF hits = {} THEN -1 ELSE (CHOOSE k \in hits : \A j \in hits : k <= j) - 1

RECURSIVE Citations(_)
Citations(refIds) ==
    IF refIds = <<>> THEN <<>>
    ELSE LET refIndex == FindIndex(references, Head(refIds))
         IN  (IF refIndex # -1 THEN <<refIndex + 1>> ELSE <<>>) \o Citations(Tail(refIds))

Insertion(kind, labels, src) ==
    [type |-> "insertion", kind |-> kind, labels |-> labels, src |-> src]

(* The marker a tag of span.innerTags produces, if any; src is the tag's   *)
(* place in span.innerTags.                                                *)
InsertionOf(innerTag, src) ==
    IF innerTag.tagName = REFERENCE /\ Truthy(innerTag.metadata, "id")
    THEN LET citations == Citations(SplitIds(innerTag.metadata["id"]))
         IN  IF Len(citations) > 0
             THEN Some(Insertion("citation-marker", citations, src)) ELSE Absent
    ELSE IF innerTag.tagName = FOOTNOTE /\ Truthy(innerTag.metadata, "id")
    THEN LET footnoteIndex == FindIndex(footnotes, innerTag.metadata["id"])
         IN  IF footnoteIndex # -1
             THEN Some(Insertion("footnote-marker", <<footnoteIndex + 1>>, src))
             ELSE Absent
    ELSE IF innerTag.tagName = SPAN_REFERENCE /\ Truthy(innerTag.metadata, "id")
    THEN LET refIndex == FindIndex(referencedSpans, innerTag.metadata["id"])
         IN  IF refIndex # -1
             THEN Some(Insertion("span-citation-marker", <<refIndex + 1>>, src))
             ELSE Absent
    ELSE Absent

(* A slip in which a marker is put before those already at its offset.    *)
RECURSIVE insertionsFromPrepending(_, _, _)
insertionsFromPrepending(innerTags, j, insertions) ==
    IF j > Len(innerTags) THEN insertions
    ELSE LET template == InsertionOf(innerTags[j], j)
             insertionIndex == innerTags[j].position.startIndex
             existing == IF insertionIndex \in DOMAIN insertions
                         THEN insertions[insertionIndex] ELSE <<>>
         IN  insertionsFromPrepending(innerTags, j + 1,
                 IF IsPresent(template)
                 THEN MapSet(insertions, insertionIndex, template \o existing)
                 ELSE insertions)

(* span.innerTags.forEach(...): the tags of the top level, in order.       *)
RECURSIVE insertionsFrom(_, _, _)
insertionsFrom(innerTags, j, insertions) ==
    IF j > Len(innerTags) THEN insertions
    ELSE LET template == InsertionOf(innerTags[j], j)
             insertionIndex == innerTags[j].position.startIndex
             existing == IF insertionIndex \in DOMAIN insertions
                         THEN insertions[insertionIndex] ELSE <<>>
         IN  insertionsFrom(innerTags, j + 1,
                 IF IsPresent(template)
                 THEN MapSet(insertions, insertionIndex, existing \o template)
                 ELSE insertions)

createInsertionsMap(s) == insertionsFrom(s.innerTags, 1, [k \in {} |-> <<>>])

-----------------------------------------------------------------------------
(* LumiSpanViz.calculateRenderedContent: the formatting counters           *)

(* A slip in which a write outside the text lands on the nearest character. *)
currentCounterClamped(counters, i) ==
    IF Len(counters) = 0 THEN Absent
    ELSE IF i < 0 THEN Some(1)
    ELSE IF i >= Len(counters) THEN Some(Len(counters))
    ELSE Some(i + 1)

(* const currentCounter = formattingCounters[i]; if (currentCounter) ...   *)
(* the counter's place in the sequence, absent outside 0..length-1.        *)
currentCounter(counters, i) ==
    IF 0 <= i /\ i < Len(counters) THEN Some(i + 1) ELSE Absent

(* A slip in which the tag marked later wins the shared metadata keys.     *)
mergeTagMetadataLaterWins(counter, innerTag) ==
    Spread(IF innerTag.tagName \in DOMAIN counter
           THEN counter[innerTag.tagName] ELSE EmptyDict,
           innerTag.metadata)

(* { ...innerTag.metadata, ...(currentCounter[innerTag.tagName] || {}) }   *)
mergeTagMetadata(counter, innerTag) ==
    Spread(innerTag.metadata,
           IF innerTag.tagName \in DOMAIN counter
           THEN counter[innerTag.tagName] ELSE EmptyDict)

RECURSIVE markTag(_, _, _)
markTag(counters, i, innerTag) ==
    IF ~(i < innerTag.position.endIndex) THEN counters
    ELSE LET c == currentCounter(counters, i)
         IN  markTag(IF IsPresent(c)
                     THEN [counters EXCEPT ![c[1]] =
                              MapSet(@, innerTag.tagName, mergeTagMetadata(@, innerTag))]
                     ELSE counters,
                     i + 1, innerTag)

RECURSIVE markTags(_, _)
markTags(counters, allInnerTags) ==
    IF allInnerTags = <<>> THEN counters
    ELSE markTags(markTag(counters, Head(allInnerTags).position.startIndex,
                          Head(allInnerTags)),
                  Tail(allInnerTags))

(* A slip in which the end index of a highlight is taken as inclusive.     *)
highlightEndInclusive(highlight, length) ==
    IF IsPresent(highlight.position)
    THEN highlight.position[1].endIndex + 1 ELSE length

highlightStart(highlight) ==
    IF IsPresent(highlight.position) THEN highlight.position[1].startIndex ELSE 0

highlightEnd(highlight, length) ==
    IF IsPresent(highlight.position) THEN highlight.position[1].endIndex ELSE length

(* A slip in which a highlight is recorded only where none is recorded yet. *)
highlightEntryKeepingFirst(counter, highlight) ==
    IF GENERAL_HIGHLIGHT_KEY \in DOMAIN counter THEN counter[GENERAL_HIGHLIGHT_KEY]
    ELSE [k \in {COLOR_HIGHLIGHT_KEY} |-> highlight.color]

(* The entry written under GENERAL_HIGHLIGHT_KEY: the color, then the      *)
(* highlight's metadata spread under it.                                   *)
highlightEntry(counter, highlight) ==
    LET colored == [k \in {COLOR_HIGHLIGHT_KEY} |-> highlight.color]
    IN  IF IsPresent(highlight.metadata)
        THEN Spread(highlight.metadata[1], colored) ELSE colored

RECURSIVE markHighlight(_, _, _, _)
markHighlight(counters, i, endIndex, highlight) ==
    IF ~(i < endIndex) THEN counters
    ELSE LET c == currentCounter(counters, i)
         IN  markHighlight(IF IsPresent(c)
                           THEN [counters EXCEPT ![c[1]] =
                                    MapSet(@, GENERAL_HIGHLIGHT_KEY,
                                           highlightEntry(@, highlight))]
                           ELSE counters,
                           i + 1, endIndex, highlight)

RECURSIVE markHighlights(_, _, _)
markHighlights(counters, allHighlights, length) ==
    IF allHighlights = <<>> THEN counters
    ELSE markHighlights(markHighlight(counters, highlightStart(Head(allHighlights)),
                                      highlightEnd(Head(allHighlights), length),
                                      Head(allHighlights)),
                        Tail(allHighlights), length)

(* spanText.split("").map(() => ({})), then the two marking passes.        *)
computeFormattingCounters(s, allInnerTags, allHighlights) ==
    markHighlights(markTags([i \in 1..Len(s.text) |-> EmptyDict], allInnerTags),
                   allHighlights, Len(s.text))

-----------------------------------------------------------------------------
(* LumiSpanViz: the emitted units                                          *)

FontClasses(fnt) == IF IsPresent(fnt) THEN {fnt[1]} ELSE {}

CharUnit(el, character, classes, href, click) ==
    [type |-> "char", el |-> el, char |-> character, classes |-> classes,
     href |-> href, click |-> click]

(* html``: a template that renders nothing.                                *)
EmptyUnit == [type |-> "empty"]

renderEquation(equationText, hasDisplayMathTag) ==
    [type |-> "equation", text |-> equationText, display |-> hasDisplayMathTag]

(* A slip in which the plain path forgets the font class.                  *)
nonformattedCharacterNoFont(character, fnt) ==
    CharUnit("span", character, {"character"}, "", Absent)

(* One element of renderNonformattedCharacters.                            *)
nonformattedCharacter(character, fnt) ==
    CharUnit("span", character, {"character"} \cup FontClasses(fnt), "", Absent)

renderNonformattedCharacters(value, fnt) ==
    [i \in 1..Len(value) |-> nonformattedCharacter(value[i], fnt)]

(* classesObject[REFERENCE] || classesObject[SPAN_REFERENCE] ||            *)
(* classesObject[FOOTNOTE]                                                 *)
hidesCharacter(classesObject) ==
    \/ REFERENCE \in classesObject
    \/ SPAN_REFERENCE \in classesObject
    \/ FOOTNOTE \in classesObject

renderFormattedCharacter(character, classesAndMetadata, fnt) ==
    LET hasHighlight == GENERAL_HIGHLIGHT_KEY \in DOMAIN classesAndMetadata
        highlightMetadata == classesAndMetadata[GENERAL_HIGHLIGHT_KEY]
        hasAnswer == hasHighlight /\ Truthy(highlightMetadata, HIGHLIGHT_METADATA_ANSWER_KEY)
        classesObject ==
            (DOMAIN classesAndMetadata) \cup FontClasses(fnt)
                \cup (IF hasHighlight THEN {highlightMetadata[COLOR_HIGHLIGHT_KEY]} ELSE {})
                \cup (IF hasAnswer THEN {"clickable"} ELSE {})
    IN  IF hidesCharacter(classesObject) THEN EmptyUnit
        ELSE IF A \in classesObject
        THEN LET metadata == classesAndMetadata[A]
             IN  CharUnit("a", character, classesObject,
                          IF Truthy(metadata, "href") THEN metadata["href"] ELSE "#",
                          Absent)
        ELSE CharUnit("span", character, classesObject, "",
                      IF hasAnswer
                      THEN Some(highlightMetadata[HIGHLIGHT_METADATA_ANSWER_KEY])
                      ELSE Absent)

(* The units emitted while the loop is at index i (i = text length: the    *)
(* insertions appended after the loop).                                    *)
EmittedAt(units, i) == [k \in 1..Len(units) |-> [at |-> i, unit |-> units[k]]]

(* A slip in which the insertions are looked up one index late.            *)
InsertionsAtLate(insertions, index) ==
    IF index - 1 \in DOMAIN insertions THEN insertions[index - 1] ELSE <<>>

InsertionsAt(insertions, index) ==
    IF index \in DOMAIN insertions THEN insertions[index] ELSE <<>>

(* A slip in which the pending equation is cut at every character.         *)
equationContinuesNever(counters, index, length) == FALSE

(* nextIndex < spanText.length && formattingCounters[nextIndex] &&         *)
(* formattingCounters[nextIndex][tagToCheck], for the character at index.  *)
equationContinues(counters, index, length) ==
    LET hasBasicMathTag == MATH \in DOMAIN counters[index + 1]
        tagToCheck == IF hasBasicMathTag THEN MATH ELSE MATH_DISPLAY
        nextIndex == index + 1
    IN  /\ nextIndex < length
        /\ tagToCheck \in DOMAIN counters[nextIndex + 1]

(* spanText.split("").flatMap((char, index) => ...), with the equation     *)
(* text accumulated so far.                                                *)
RECURSIVE emitParts(_, _, _, _, _, _)
emitParts(index, equationText, spanText, counters, insertions, fnt) ==
    IF index >= Len(spanText) THEN <<>>
    ELSE LET char == spanText[index + 1]
             templates == InsertionsAt(insertions, index)
             hasBasicMathTag == MATH \in DOMAIN counters[index + 1]
             hasDisplayMathTag == MATH_DISPLAY \in DOMAIN counters[index + 1]
             hasMathTag == hasBasicMathTag \/ hasDisplayMathTag
         IN  IF hasMathTag
             THEN IF equationContinues(counters, index, Len(spanText))
                  THEN EmittedAt(templates, index)
                           \o emitParts(index + 1, Append(equationText, char),
                                        spanText, counters, insertions, fnt)
                  ELSE EmittedAt(Append(templates,
                                        renderEquation(Append(equationText, char),
                                                       hasDisplayMathTag)), index)
                           \o emitParts(index + 1, <<>>, spanText, counters,
                                        insertions, fnt)
             ELSE EmittedAt(Append(templates,
                                   renderFormattedCharacter(char,
                                       Spread([k \in {"character"} |-> EmptyDict],
                                              counters[index + 1]), fnt)), index)
                      \o emitParts(index + 1, equationText, spanText, counters,
                                   insertions, fnt)

(* The branch after the plain-path test of calculateRenderedContent.       *)
generalPath(s, allHighlights, fnt) ==
    LET allInnerTags == flattenTags(s.innerTags, 0)
        insertions == createInsertionsMap(s)
        counters == computeFormattingCounters(s, allInnerTags, allHighlights)
    IN  [path |-> "general",
         formattingCounters |-> counters,
         parts |-> emitParts(0, <<>>, s.text, counters, insertions, fnt)
                       \o EmittedAt(InsertionsAt(insertions, Len(s.text)), Len(s.text))]

plainPath(s, fnt) ==
    LET units == renderNonformattedCharacters(s.text, fnt)
    IN  [path |-> "plain",
         formattingCounters |-> <<>>,
         parts |-> [i \in 1..Len(units) |-> [at |-> i - 1, unit |-> units[i]]]]

(* !hasHighlight && !allInnerTags.length && insertions.size === 0          *)
takesPlainPath(s, allHighlights) ==
    /\ ~(Len(allHighlights) > 0)
    /\ Len(flattenTags(s.innerTags, 0)) = 0
    /\ DOMAIN createInsertionsMap(s) = {}

calculateRenderedContent(s, allHighlights, fnt) ==
    IF takesPlainPath(s, allHighlights) THEN plainPath(s, fnt)
    ELSE generalPath(s, allHighlights, fnt)

-----------------------------------------------------------------------------
(* flattenTags applied to a tag tree on its own                            *)

MaxTags == 3
MaxOffset == 1

(* The childless tags of the trees: links over one character and empty     *)
(* math tags, at a relative start offset of 0..MaxOffset.                  *)
FlattenLeaves ==
    {InnerTag(A, Position(s, s + 1), [href |-> "u1"], <<>>) : s \in 0..MaxOffset}
        \cup {InnerTag(MATH, Position(s, s), EmptyDict, <<>>) : s \in 0..MaxOffset}

(* The forests of exactly k tags built from the given childless tags.      *)
RECURSIVE ForestsOver(_, _)
ForestsOver(leaves, k) ==
    IF k = 0 THEN {<<>>}
    ELSE UNION { { <<[t EXCEPT !.children = c]>> \o rest :
                       t \in leaves, c \in ForestsOver(leaves, j - 1),
                       rest \in ForestsOver(leaves, k - j) } : j \in 1..k }

FlattenInit ==
    /\ tagTree \in UNION {ForestsOver(FlattenLeaves, k) : k \in 0..MaxTags}
    /\ flattened = <<>>
    /\ flattenPc = "input"

FlattenIdle ==
    /\ tagTree = <<>>
    /\ flattened = <<>>
    /\ flattenPc = "input"

(* flattenTags(tags): parentOffset takes its default, 0.                   *)
Flatten ==
    /\ flattenPc = "input"
    /\ flattened' = flattenTags(tagTree, 0)
    /\ flattenPc' = "flattened"
    /\ UNCHANGED tagTree

-----------------------------------------------------------------------------
(* selection_utils.ts: the DOM that getSelectionInfo reads                 *)

MaxBlocks == 3
MaxKids == 2

CITATION_CLASSNAME == "inline-citation-marker"
FOOTNOTE_CLASSNAME == "footnote-marker"

(* A DOM node. parent is the place of the parent node in the document, 0   *)
(* for none; text is the length of a text node's data.                     *)
Node(tagName, id, classList, parent, text) ==
    [tagName |-> tagName, id |-> id, classList |-> classList, parent |-> parent,
     text |-> text]

NoNode == 0

(* One rendered child of the outer span, first node at place `at`: a       *)
(* character span, a citation marker, the marker of a reference to another *)
(* span, an equation or a footnote marker.                                 *)
KidNodes(kid, outer, at) ==
    IF kid = "char"
    THEN << Node("SPAN", "", {}, outer, 0), Node("#text", "", {}, at, 1) >>
    ELSE IF kid = "citation"
    THEN << Node("SPAN", "", {CITATION_CLASSNAME}, outer, 0),
            Node("SPAN", "", {"inline-citation"}, at, 0),
            Node("#text", "", {}, at + 1, 1) >>
    ELSE IF kid = "span-citation"
    THEN << Node("SPAN", "", {"citation-marker"}, outer, 0),
            Node("SPAN", "", {"span-inline-citation", "inline-citation"}, at, 0),
            Node("#text", "", {}, at + 1, 1) >>
    ELSE IF kid = "equation"
    THEN << Node("SPAN", "", {"equation"}, outer, 0),
            Node("SPAN", "", {"katex"}, at, 0),
            Node("#text", "", {}, at + 1, 1) >>
    ELSE << Node("SUP", "", {FOOTNOTE_CLASSNAME}, outer, 0),
            Node("#text", "", {}, at, 1) >>

RECURSIVE KidsNodes(_, _, _)
KidsNodes(kids, outer, at) ==
    IF kids = <<>> THEN <<>>
    ELSE LET first == KidNodes(Head(kids), outer, at)
         IN  first \o KidsNodes(Tail(kids), outer, at + Len(first))

(* A block of a container: a <lumi-span> with its outer span and rendered  *)
(* children, or an element that is no <lumi-span>.                         *)
BlockNodes(block, container, at) ==
    IF block.kind = "unit"
    THEN << Node("LUMI-SPAN", block.id, {}, container, 0),
            Node("SPAN", "", {"outer-span"}, at, 0) >>
             \o KidsNodes(block.kids, at + 1, at + 2)
    ELSE << Node("DIV", "figure", {}, container, 0), Node("#text", "", {}, at, 1) >>

RECURSIVE BlocksNodes(_, _, _)
BlocksNodes(blocks, container, at) ==
    IF blocks = <<>> THEN <<>>
    ELSE LET first == BlockNodes(Head(blocks), container, at)
         IN  first \o BlocksNodes(Tail(blocks), container, at + Len(first))

(* The document: a root, and under it one container element per list of    *)
(* blocks.                                                                 *)
RECURSIVE ContainersNodes(_, _)
ContainersNodes(layout, at) ==
    IF layout = <<>> THEN <<>>
    ELSE LET first == << Node("DIV", "", {}, 1, 0) >>
                          \o BlocksNodes(Head(layout), at, at + 1)
         IN  first \o ContainersNodes(Tail(layout), at + Len(first))

DomOf(layout) == << Node("HTML", "", {}, NoNode, 0) >> \o ContainersNodes(layout, 2)

UnitIds == << "span-1", "span-2", "span-3", "span-4" >>

(* The rendered children all units of one document have.                   *)
KidLists == UNION {SeqsOfLen({"char", "citation", "footnote"}, k) : k \in 1..MaxKids}

(* The blocks of the first container: units with their id or without one, *)
(* and other elements.                                                     *)
BlockLists(kids) ==
    UNION { { [k \in 1..n |->
                 IF shape[k] = "unit" THEN [kind |-> "unit", id |-> UnitIds[k], kids |-> kids]
                 ELSE IF shape[k] = "unit-without-id"
                 THEN [kind |-> "unit", id |-> "", kids |-> kids]
                 ELSE [kind |-> "other"]] :
              shape \in SeqsOfLen({"unit", "unit-without-id", "other"}, n) } :
            n \in 1..MaxBlocks }

(* One container, or two with a single unit in the second.                 *)
Layouts ==
    UNION { UNION { { <<blocks>>,
                      <<blocks, << [kind |-> "unit", id |-> "span-far", kids |-> kids] >> >> } :
                    blocks \in BlockLists(kids) } : kids \in KidLists }

(* The nodes a range boundary can lie in: text nodes and <lumi-span>       *)
(* elements.                                                               *)
BoundaryNodes(dom) ==
    {n \in 1..Len(dom) : dom[n].tagName \in {"#text", "LUMI-SPAN"}}

Range(startContainer, endContainer) ==
    [startContainer |-> startContainer, endContainer |-> endContainer]

(* A range starts before it ends, in document order, and its text is       *)
(* nothing, white space or words; without a range there is no text.        *)
Selections(dom) ==
    { [text |-> "", range |-> Absent] }
        \cup { [text |-> t, range |-> Some(r)] :
                 t \in {"", " ", " is "},
                 r \in {q \in {Range(a, b) : a \in BoundaryNodes(dom),
                                              b \in BoundaryNodes(dom)} :
                           q.startContainer <= q.endContainer} }

-----------------------------------------------------------------------------
(* selection_utils.ts: getSelectionInfo                                    *)

(* String.prototype.trim and toLowerCase on the strings of the model.      *)
trim(text) == IF text = " " THEN "" ELSE IF text = " is " THEN "is" ELSE text

toLowerCase(tagName) ==
    CASE tagName = "LUMI-SPAN" -> "lumi-span"
      [] tagName = "SPAN" -> "span"
      [] tagName = "SUP" -> "sup"
      [] tagName = "DIV" -> "div"
      [] tagName = "HTML" -> "html"
      [] OTHER -> tagName

parentElement(dom, node) == IF node = NoNode THEN NoNode ELSE dom[node].parent

isHTMLElement(dom, node) == dom[node].tagName # "#text"

(* findParent(startNode, (el) => el.tagName.toLowerCase() === tagName)     *)
RECURSIVE findParent(_, _, _)
findParent(dom, startNode, tagName) ==
    IF startNode = NoNode THEN NoNode
    ELSE IF isHTMLElement(dom, startNode) /\ toLowerCase(dom[startNode].tagName) = tagName
    THEN startNode
    ELSE findParent(dom, parentElement(dom, startNode), tagName)

(* Array.from(element.children): the element children, in document order.  *)
children(dom, element) ==
    SelectSeq([n \in 1..Len(dom) |-> n],
              LAMBDA n : dom[n].parent = element /\ isHTMLElement(dom, n))

(* Array.prototype.indexOf, 0-based, -1 when absent.                       *)
indexOf(list, x) ==
    LET hits == {k \in 1..Len(list) : list[k] = x}
    IN  IF hits = {} THEN -1 ELSE (CHOOSE k \in hits : \A j \in hits : k <= j) - 1

(* A slip in which only citation markers count as inline tags.             *)
isInlineTagCitationOnly(dom, element) == CITATION_CLASSNAME \in dom[element].classList

isInlineTag(dom, element) ==
    \/ CITATION_CLASSNAME \in dom[element].classList
    \/ FOOTNOTE_CLASSNAME \in dom[element].classList

getOffsetInLumiSpan(dom, textNode) ==
    LET characterSpan == parentElement(dom, textNode)
        lumiSpanRendererElement == parentElement(dom, characterSpan)
        lumiSpanRendererChildren == children(dom, lumiSpanRendererElement)
        spanIndex == indexOf(lumiSpanRendererChildren, characterSpan)
        inlineTagOffset ==
            Cardinality({k \in 1..spanIndex : isInlineTag(dom, lumiSpanRendererChildren[k])})
    IN  IF characterSpan = NoNode THEN -1
        ELSE IF lumiSpanRendererElement = NoNode THEN -1
        ELSE spanIndex - inlineTagOffset

nextElementSibling(dom, element) ==
    LET later == {n \in (element + 1)..Len(dom) :
                     dom[n].parent = dom[element].parent /\ isHTMLElement(dom, n)}
    IN  IF later = {} THEN NoNode ELSE CHOOSE n \in later : \A m \in later : n <= m

(* A slip in which every sibling element on the way is collected.          *)
isLumiSpanAnyElement(dom, element) == isHTMLElement(dom, element)

isLumiSpan(dom, element) ==
    isHTMLElement(dom, element) /\ toLowerCase(dom[element].tagName) = "lumi-span"

(* while (current && current !== endLumiSpan) { ... }                      *)
RECURSIVE collectLumiSpans(_, _, _, _)
collectLumiSpans(dom, current, endLumiSpan, allLumiSpans) ==
    IF current = NoNode \/ current = endLumiSpan THEN allLumiSpans
    ELSE LET next == nextElementSibling(dom, current)
         IN  collectLumiSpans(dom, next, endLumiSpan,
                 IF next # NoNode /\ isLumiSpan(dom, next)
                 THEN Append(allLumiSpans, next) ELSE allLumiSpans)

RECURSIVE isInside(_, _, _)
isInside(dom, node, element) ==
    IF node = NoNode THEN FALSE
    ELSE node = element \/ isInside(dom, dom[node].parent, element)

(* A slip in which only the characters of the unit are counted.            *)
RECURSIVE textContentLengthOfCharacters(_, _, _)
textContentLengthOfCharacters(dom, element, from) ==
    IF from > Len(dom) THEN 0
    ELSE (IF isInside(dom, from, element) /\ dom[dom[from].parent].classList = {}
          THEN dom[from].text ELSE 0)
             + textContentLengthOfCharacters(dom, element, from + 1)

(* element.textContent.length: the text of every text node inside.         *)
RECURSIVE textContentLength(_, _, _)
textContentLength(dom, element, from) ==
    IF from > Len(dom) THEN 0
    ELSE (IF isInside(dom, from, element) THEN dom[from].text ELSE 0)
             + textContentLength(dom, element, from + 1)

HighlightSelection(spanId, position) == [spanId |-> spanId, position |-> position]

(* A slip in which the end offset is pushed as it is, without the + 1.     *)
RECURSIVE highlightSelectionOfInclusiveEnd(_, _, _, _, _)
highlightSelectionOfInclusiveEnd(dom, allLumiSpans, range, first, last) ==
    IF allLumiSpans = <<>> THEN <<>>
    ELSE LET lumiSpan == Head(allLumiSpans)
             startOffset == IF lumiSpan = first
                            THEN getOffsetInLumiSpan(dom, range.startContainer)
                            ELSE 0
             endOffset == IF lumiSpan = last
                          THEN getOffsetInLumiSpan(dom, range.endContainer)
                          ELSE textContentLength(dom, lumiSpan, 1)
         IN  (IF dom[lumiSpan].id = "" THEN <<>>
              ELSE << HighlightSelection(dom[lumiSpan].id,
                                         Position(startOffset, endOffset)) >>)
                 \o highlightSelectionOfInclusiveEnd(dom, Tail(allLumiSpans),
                                                     range, first, last)

(* for (const lumiSpan of allLumiSpans) { ... }                            *)
RECURSIVE highlightSelectionOf(_, _, _, _, _)
highlightSelectionOf(dom, allLumiSpans, range, startLumiSpan, endLumiSpan) ==
    IF allLumiSpans = <<>> THEN <<>>
    ELSE LET lumiSpan == Head(allLumiSpans)
             startOffset == IF lumiSpan = startLumiSpan
                            THEN getOffsetInLumiSpan(dom, range.startContainer)
                            ELSE 0
             endOffset == IF lumiSpan = endLumiSpan
                          THEN getOffsetInLumiSpan(dom, range.endContainer)
                          ELSE textContentLength(dom, lumiSpan, 1)
         IN  (IF dom[lumiSpan].id = "" THEN <<>>
              ELSE << HighlightSelection(dom[lumiSpan].id,
                                         Position(startOffset, endOffset + 1)) >>)
                 \o highlightSelectionOf(dom, Tail(allLumiSpans), range,
                                         startLumiSpan, endLumiSpan)

(* A slip in which the id of the end unit is not looked at.                *)
lumiSpanMissingStartOnly(dom, startLumiSpan, endLumiSpan) ==
    \/ startLumiSpan = NoNode
    \/ endLumiSpan = NoNode
    \/ dom[startLumiSpan].id = ""

(* !startLumiSpan || !endLumiSpan || !startLumiSpan.id || !endLumiSpan.id  *)
lumiSpanMissing(dom, startLumiSpan, endLumiSpan) ==
    \/ startLumiSpan = NoNode
    \/ endLumiSpan = NoNode
    \/ dom[startLumiSpan].id = ""
    \/ dom[endLumiSpan].id = ""

(* null is Absent; a SelectionInfo is Some of its record.                  *)
getSelectionInfo(dom, selection) ==
    LET selectedText == trim(selection.text)
        range == selection.range[1]
        startLumiSpan == findParent(dom, range.startContainer, "lumi-span")
        endLumiSpan == findParent(dom, range.endContainer, "lumi-span")
        allLumiSpans == IF startLumiSpan # endLumiSpan
                        THEN collectLumiSpans(dom, startLumiSpan, endLumiSpan,
                                              <<startLumiSpan>>)
                        ELSE <<startLumiSpan>>
        firstParentSpan == findParent(dom, range.startContainer, "span")
    IN  IF selectedText = "" THEN Absent
        ELSE IF ~IsPresent(selection.range) THEN Absent
        ELSE IF lumiSpanMissing(dom, startLumiSpan, endLumiSpan) THEN Absent
        ELSE IF firstParentSpan = NoNode THEN Absent
        ELSE Some([selectedText |-> selectedText,
                   parentSpan |-> firstParentSpan,
                   highlightSelection |->
                       highlightSelectionOf(dom, allLumiSpans, range,
                                            startLumiSpan, endLumiSpan)])

ResolverInit ==
    /\ document \in {DomOf(layout) : layout \in Layouts}
    /\ windowSelection \in Selections(document)
    /\ selectionInfo = Absent
    /\ resolverPc = "selected"

ResolverIdle ==
    /\ document = <<>>
    /\ windowSelection = [text |-> "", range |-> Absent]
    /\ selectionInfo = Absent
    /\ resolverPc = "selected"

(* A selection-change notification: getSelectionInfo(window.getSelection()) *)
Resolve ==
    /\ resolverPc = "selected"
    /\ selectionInfo' = getSelectionInfo(document, windowSelection)
    /\ resolverPc' = "resolved"
    /\ UNCHANGED <<document, windowSelection>>

-----------------------------------------------------------------------------
(* AnswerHighlightManager: the store of the highlights that answers carry. *)
(* Its source file is not among the sources at hand; it is modelled from   *)
(* its description and its test as a HighlightManagerBase whose state is   *)
(* highlightedSpans and highlightedImages.                                 *)

MaxAnswerCalls == 2
MaxAnswers == 2

ANSWER_HIGHLIGHT_COLOR == "green"

HighlightedSpan(spanId, position) == [spanId |-> spanId, position |-> position]

(* A LumiAnswer, with request.highlightedSpans absent or a list.           *)
LumiAnswer(id, requestSpans) ==
    [id |-> id, request |-> [highlightedSpans |-> requestSpans]]

AnswerPool ==
    { LumiAnswer("ans-1", Some(<< HighlightedSpan("span-1", Some(Position(0, 5))),
                                  HighlightedSpan("span-2", Absent) >>)),
      LumiAnswer("ans-2", Some(<< HighlightedSpan("span-1", Absent) >>)),
      LumiAnswer("ans-3", Absent),
      LumiAnswer("ans-4", Some(<< HighlightedSpan("span-2", Some(Position(1, 3))),
                                  HighlightedSpan("span-2", Absent) >>)) }

AnswerLists == UNION {SeqsOfLen(AnswerPool, k) : k \in 0..MaxAnswers}

(* answer.request.highlightedSpans ?? []                                   *)
descriptorsOf(answer) ==
    IF IsPresent(answer.request.highlightedSpans)
    THEN answer.request.highlightedSpans[1] ELSE <<>>

highlightOfDescriptor(answer, descriptor) ==
    Highlight(ANSWER_HIGHLIGHT_COLOR, descriptor.spanId, descriptor.position,
              Some([answer |-> answer]))

(* A slip in which only the first descriptor of an answer is used.         *)
highlightsOfAnswerFirstOnly(answer) ==
    IF descriptorsOf(answer) = <<>> THEN <<>>
    ELSE << highlightOfDescriptor(answer, descriptorsOf(answer)[1]) >>

highlightsOfAnswer(answer) ==
    [k \in 1..Len(descriptorsOf(answer)) |->
        highlightOfDescriptor(answer, descriptorsOf(answer)[k])]

addAnswer(spans, answer) == addHighlights(spans, highlightsOfAnswer(answer))

RECURSIVE addAnswers(_, _)
addAnswers(spans, answers) ==
    IF answers = <<>> THEN spans
    ELSE addAnswers(addAnswer(spans, Head(answers)), Tail(answers))

(* A slip in which the store is not cleared first.                         *)
populateFromAnswersKeeping(spans, answers) == addAnswers(spans, answers)

(* clearHighlights(), then addAnswer for every answer of the list.         *)
populateFromAnswers(spans, answers) == addAnswers(EmptyDict, answers)

CallAddAnswer ==
    \E answer \in AnswerPool :
        /\ Len(calls) < MaxAnswerCalls
        /\ highlightedSpans' = addAnswer(highlightedSpans, answer)
        /\ calls' = Append(calls, Call("addAnswer", <<answer>>))
        /\ UNCHANGED highlightedImages

CallPopulateFromAnswers ==
    \E answers \in AnswerLists :
        /\ Len(calls) < MaxAnswerCalls
        /\ highlightedSpans' = populateFromAnswers(highlightedSpans, answers)
        /\ highlightedImages' = {}
        /\ calls' = Append(calls, Call("populateFromAnswers", answers))

(* clearHighlights(), inherited from HighlightManagerBase.                 *)
CallClearAnswerHighlights ==
    /\ Len(calls) < MaxAnswerCalls
    /\ highlightedSpans' = EmptyDict
    /\ highlightedImages' = {}
    /\ calls' = Append(calls, Call("clearHighlights", <<>>))

-----------------------------------------------------------------------------
(* LumiDocManager: the index of the spans and sections of a document. Its  *)
(* source file is not among the sources at hand; the documents are built   *)
(* with the helpers of its test and the index is modelled from its         *)
(* description.                                                            *)

MaxSections == 2
MaxDepth == 2
MaxSpans == 2

createSpan(id, text) == [id |-> id, text |-> text, innerTags |-> <<>>]

createTextContent(spans) ==
    [textContent |-> Some([tagName |-> "p", spans |-> spans]),
     imageContent |-> Absent,
     listContent |-> Absent]

createListContent(items) ==
    [textContent |-> Absent,
     imageContent |-> Absent,
     listContent |-> Some([listItems |-> items, isOrdered |-> FALSE])]

(* A content block holding an image with its caption span.                 *)
createImageContent(caption) ==
    [textContent |-> Absent,
     imageContent |-> Some([storagePath |-> "", caption |-> caption]),
     listContent |-> Absent]

createListItem(spans, subList) == [spans |-> spans, subListContent |-> subList]

createSection(id, contents, subSections) ==
    [id |-> id,
     heading |-> [headingLevel |-> 1, text |-> "Test Section"],
     contents |-> contents,
     subSections |-> subSections]

createDoc(abstractContents, sections, docReferences) ==
    [abstract |-> [contents |-> abstractContents],
     sections |-> sections,
     references |-> docReferences,
     footnotes |-> Absent]

DocSpanId(i) == "span-" \o ToString(i)
NonExistentSpanId == "non-existent-span"
SectionId(s, d) == "section-" \o ToString(s) \o "-" \o ToString(d)

(* The places of a document where spans lie: the text content of the       *)
(* abstract and, in the section at depth d under top-level section s, its  *)
(* text content, its list item, the item of the nested sub-list and the    *)
(* captions of its images; the references and the footnotes.               *)
Place(s, d, kind) == [section |-> s, depth |-> d, kind |-> kind]
AbstractPlace == Place(0, 0, "abstract")
ReferencePlace == Place(0, 0, "reference")
FootnotePlace == Place(0, 0, "footnote")
NoPlace == Place(0, 0, "none")
SectionPlaces ==
    {Place(s, d, kind) : s \in 1..MaxSections, d \in 1..MaxDepth,
                         kind \in {"text", "item", "subitem", "caption"}}
Placements ==
    [1..MaxSpans ->
        SectionPlaces \cup {AbstractPlace, ReferencePlace, FootnotePlace, NoPlace}]

(* The spans a placement puts at one place, in the order of their ids.     *)
SpansAt(at, place) ==
    LET here == SelectSeq([i \in 1..MaxSpans |-> i], LAMBDA i : at[i] = place)
    IN  [j \in 1..Len(here) |-> createSpan(DocSpanId(here[j]), "Nested")]

(* One image per span put at a place, the span being its caption.          *)
ImagesAt(at, place) ==
    LET captions == SpansAt(at, place)
    IN  [j \in 1..Len(captions) |-> createImageContent(Some(captions[j]))]

(* The references or footnotes of the spans put at a place.                *)
NotesAt(at, place, prefix) ==
    LET spans == SpansAt(at, place)
    IN  [j \in 1..Len(spans) |->
            [id |-> prefix \o ToString(j), span |-> spans[j]]]

(* The section at depth d under top-level section s, with the chain of     *)
(* subsections below it.                                                   *)
RECURSIVE SectionAt(_, _, _)
SectionAt(at, s, d) ==
    createSection(
        SectionId(s, d),
        <<createTextContent(SpansAt(at, Place(s, d, "text"))),
          createListContent(
              <<createListItem(
                    SpansAt(at, Place(s, d, "item")),
                    Some([listItems |->
                              <<createListItem(
                                    SpansAt(at, Place(s, d, "subitem")),
                                    Absent)>>,
                          isOrdered |-> FALSE]))>>)>>
        \o ImagesAt(at, Place(s, d, "caption")),
        IF d < MaxDepth THEN <<SectionAt(at, s, d + 1)>> ELSE <<>>)

DocOf(at) ==
    [createDoc(<<createTextContent(SpansAt(at, AbstractPlace))>>,
               [s \in 1..MaxSections |-> SectionAt(at, s, 1)],
               NotesAt(at, ReferencePlace, "ref-"))
        EXCEPT !.footnotes = Some(NotesAt(at, FootnotePlace, "fn-"))]

(* A slip in which the spans of a subsection go to the section above it.   *)
owningSectionAbove(section, parent) ==
    IF IsPresent(parent) THEN parent[1] ELSE section

(* The section the spans met in the contents of `section` are attributed   *)
(* to.                                                                     *)
owningSection(section, parent) == section

(* The walk of the constructor, as the list of what it registers, in       *)
(* order: a span with the section it is attributed to (none in the         *)
(* abstract), or a section with its parent section.                        *)
spanEntries(spans, section) ==
    [i \in 1..Len(spans) |->
        [kind |-> "span", id |-> spans[i].id, span |-> Some(spans[i]),
         section |-> section]]

(* List content, walked into the nested sub-lists.                         *)
RECURSIVE listItemsEntries(_, _)
listItemsEntries(listItems, section) ==
    IF listItems = <<>> THEN <<>>
    ELSE LET item == Head(listItems)
         IN  spanEntries(item.spans, section)
             \o (IF IsPresent(item.subListContent)
                 THEN listItemsEntries(item.subListContent[1].listItems,
                                       section)
                 ELSE <<>>)
             \o listItemsEntries(Tail(listItems), section)

RECURSIVE contentsEntries(_, _)
contentsEntries(contents, section) ==
    IF contents = <<>> THEN <<>>
    ELSE LET content == Head(contents)
         IN  (IF IsPresent(content.textContent)
              THEN spanEntries(content.textContent[1].spans, section)
              ELSE <<>>)
             \o (IF IsPresent(content.listContent)
                 THEN listItemsEntries(content.listContent[1].listItems,
                                       section)
                 ELSE <<>>)
             \o (IF IsPresent(content.imageContent)
                    /\ IsPresent(content.imageContent[1].caption)
                 THEN spanEntries(<<content.imageContent[1].caption[1]>>,
                                  section)
                 ELSE <<>>)
             \o contentsEntries(Tail(contents), section)

(* The sections, depth-first and pre-order: a section's own contents, then *)
(* its subsections with the section as their parent.                       *)
RECURSIVE sectionsEntries(_, _)
sectionsEntries(sections, parent) ==
    IF sections = <<>> THEN <<>>
    ELSE LET section == Head(sections)
         IN  (IF IsPresent(parent)
              THEN <<[kind |-> "section", id |-> section.id, span |-> Absent,
                      section |-> parent]>>
              ELSE <<>>)
             \o contentsEntries(section.contents,
                                Some(owningSection(section, parent)))
             \o sectionsEntries(section.subSections, Some(section))
             \o sectionsEntries(Tail(sections), parent)

(* A slip in which the references and footnotes are left out of the index. *)
notesEntriesSkipped(notes) == <<>>

(* The spans of the references, or of the footnotes when the document has *)
(* any: they enter the span map without a section.                         *)
notesEntries(notes) ==
    spanEntries([i \in 1..Len(notes) |-> notes[i].span], Absent)

(* Map.set for every entry of one kind, in order: the last one of an id    *)
(* is the one the map holds.                                               *)
LastEntry(entries, id) ==
    entries[CHOOSE i \in 1..Len(entries) :
                /\ entries[i].id = id
                /\ \A j \in (i + 1)..Len(entries) : entries[j].id # id]

(* new LumiDocManager(doc): the abstract without an owner, then the        *)
(* sections; spanMap, spanToSectionMap and sectionToParentMap.             *)
LumiDocManager(doc) ==
    LET walk == contentsEntries(doc.abstract.contents, Absent)
                \o sectionsEntries(doc.sections, Absent)
                \o notesEntries(doc.references)
                \o (IF IsPresent(doc.footnotes)
                    THEN notesEntries(doc.footnotes[1])
                    ELSE <<>>)
        spans == SelectSeq(walk, LAMBDA e : e.kind = "span")
        owned == SelectSeq(spans, LAMBDA e : IsPresent(e.section))
        links == SelectSeq(walk, LAMBDA e : e.kind = "section")
    IN  [spanMap |->
            [id \in {spans[i].id : i \in 1..Len(spans)} |->
                LastEntry(spans, id).span[1]],
         spanToSectionMap |->
            [id \in {owned[i].id : i \in 1..Len(owned)} |->
                LastEntry(owned, id).section[1]],
         sectionToParentMap |->
            [id \in {links[i].id : i \in 1..Len(links)} |->
                LastEntry(links, id).section[1]]]

(* getSectionForSpan(spanId): spanToSectionMap.get(spanId)                 *)
getSectionForSpan(index, spanId) ==
    IF spanId \in DOMAIN index.spanToSectionMap
    THEN Some(index.spanToSectionMap[spanId])
    ELSE Absent

(* getSpanById(spanId): spanMap.get(spanId)                                *)
getSpanById(index, spanId) ==
    IF spanId \in DOMAIN index.spanMap
    THEN Some(index.spanMap[spanId])
    ELSE Absent

(* The spanIds getter: the keys of spanMap.                                *)
spanIds(index) == DOMAIN index.spanMap

DocInit ==
    /\ lumiDoc \in {DocOf(at) : at \in Placements}
    /\ lumiDocManager = LumiDocManager(lumiDoc)
    /\ queriedSpanId = NonExistentSpanId
    /\ sectionForSpan = Absent
    /\ spanById = Absent
    /\ docPc = "indexed"

DocIdle ==
    /\ lumiDoc = createDoc(<<>>, <<>>, <<>>)
    /\ lumiDocManager = LumiDocManager(lumiDoc)
    /\ queriedSpanId = NonExistentSpanId
    /\ sectionForSpan = Absent
    /\ spanById = Absent
    /\ docPc = "indexed"

(* A query of the index by span id, known or not.                          *)
GetSectionForSpan ==
    /\ docPc = "indexed"
    /\ \E spanId \in {DocSpanId(i) : i \in 1..MaxSpans} \cup {NonExistentSpanId} :
         /\ queriedSpanId' = spanId
         /\ sectionForSpan' = getSectionForSpan(lumiDocManager, spanId)
    /\ docPc' = "queried"
    /\ UNCHANGED <<lumiDoc, lumiDocManager, spanById>>

(* A lookup of a span by id, known or not.                                 *)
GetSpanById ==
    /\ docPc = "indexed"
    /\ \E spanId \in {DocSpanId(i) : i \in 1..MaxSpans} \cup {NonExistentSpanId} :
         /\ queriedSpanId' = spanId
         /\ spanById' = getSpanById(lumiDocManager, spanId)
    /\ docPc' = "looked up"
    /\ UNCHANGED <<lumiDoc, lumiDocManager, sectionForSpan>>

-----------------------------------------------------------------------------
(* HistoryCollapseManager: the collapse state of the answers of the        *)
(* history panel.                                                          *)

MaxCollapseCalls == 3
MaxInitializeAnswers == 2

INITIAL_ANSWERS_COLLAPSE_STATE == TRUE
FIRST_ANSWER_COLLAPSE_STATE == FALSE

CollapseAnswerIds == {"answer-1", "answer-2", "answer-3"}

(* The lists of answers initialize is called with, as the lists of their   *)
(* ids.                                                                    *)
InitializeInputs ==
    UNION {SeqsOfLen(CollapseAnswerIds, n) : n \in 0..MaxInitializeAnswers}

(* initialize(answers): the first answer expanded, the others collapsed.   *)
RECURSIVE initialize(_, _, _)
initialize(state, answers, index) ==
    IF index > Len(answers) THEN state
    ELSE initialize(
             MapSet(state, answers[index],
                    IF index = 1 THEN FIRST_ANSWER_COLLAPSE_STATE
                    ELSE INITIAL_ANSWERS_COLLAPSE_STATE),
             answers, index + 1)

(* isAnswerCollapsed(answerId): answerCollapseState.get(answerId) ?? false *)
isAnswerCollapsed(state, answerId) ==
    IF answerId \in DOMAIN state THEN state[answerId] ELSE FALSE

setAnswerCollapsed(state, answerId, value) == MapSet(state, answerId, value)

toggleAnswerCollapsed(state, answerId) ==
    MapSet(state, answerId, ~isAnswerCollapsed(state, answerId))

(* A slip in which the answer to keep is not set expanded after the loop.  *)
collapseAllAnswersExceptLoopOnly(state, answerIdToKeepExpanded) ==
    [answerId \in DOMAIN state |->
        IF answerId # answerIdToKeepExpanded THEN TRUE ELSE state[answerId]]

(* collapseAllAnswersExcept: the loop sets every other key of the map      *)
(* collapsed (it adds no key, so the keys visited are those of the map at  *)
(* the call), then the answer to keep is set expanded.                     *)
collapseAllAnswersExcept(state, answerIdToKeepExpanded) ==
    MapSet([answerId \in DOMAIN state |->
               IF answerId # answerIdToKeepExpanded THEN TRUE
               ELSE state[answerId]],
           answerIdToKeepExpanded, FALSE)

CollapseCall(op, answerId, value, answers) ==
    [op |-> op, answerId |-> answerId, value |-> value, answers |-> answers]

(* new HistoryCollapseManager()                                            *)
CollapseInit ==
    /\ answerCollapseState = EmptyDict
    /\ lastCollapseCall = CollapseCall("constructor", "", FALSE, <<>>)
    /\ collapseCallCount = 0

CallInitialize ==
    /\ collapseCallCount < MaxCollapseCalls
    /\ \E answers \in InitializeInputs :
         /\ answerCollapseState' = initialize(answerCollapseState, answers, 1)
         /\ lastCollapseCall' = CollapseCall("initialize", "", FALSE, answers)
    /\ collapseCallCount' = collapseCallCount + 1

CallSetAnswerCollapsed ==
    /\ collapseCallCount < MaxCollapseCalls
    /\ \E answerId \in CollapseAnswerIds, value \in BOOLEAN :
         /\ answerCollapseState' =
                setAnswerCollapsed(answerCollapseState, answerId, value)
         /\ lastCollapseCall' =
                CollapseCall("setAnswerCollapsed", answerId, value, <<>>)
    /\ collapseCallCount' = collapseCallCount + 1

CallToggleAnswerCollapsed ==
    /\ collapseCallCount < MaxCollapseCalls
    /\ \E answerId \in CollapseAnswerIds :
         /\ answerCollapseState' =
                toggleAnswerCollapsed(answerCollapseState, answerId)
         /\ lastCollapseCall' =
                CollapseCall("toggleAnswerCollapsed", answerId, FALSE, <<>>)
    /\ collapseCallCount' = collapseCallCount + 1

CallCollapseAllAnswersExcept ==
    /\ collapseCallCount < MaxCollapseCalls
    /\ \E answerId \in CollapseAnswerIds :
         /\ answerCollapseState' =
                collapseAllAnswersExcept(answerCollapseState, answerId)
         /\ lastCollapseCall' =
                CollapseCall("collapseAllAnswersExcept", answerId, FALSE, <<>>)
    /\ collapseCallCount' = collapseCallCount + 1

-----------------------------------------------------------------------------
(* The requests of the reader (LumiReader.handleDefine, handleAsk and      *)
(* fetchPersonalSummary) and the temporary answers of the HistoryService.  *)
(* Each handler is an async function: its synchronous part runs up to the  *)
(* await of the backend callable, and its continuation (the rest of the    *)
(* try, or the catch, then the finally) runs when the call settles.        *)

MaxRequests == 3
MaxClock == 2

RequestHandlers == {"handleDefine", "handleAsk", "fetchPersonalSummary"}

(* createTemporaryAnswer: the id is made of the clock reading alone; the   *)
(* answer keeps the request object it was made for.                        *)
createTemporaryAnswer(request, now) ==
    [id |-> "temp-" \o ToString(now), request |-> request, isLoading |-> TRUE]

(* HistoryService.addTemporaryAnswer                                        *)
addTemporaryAnswer(answers, answer) == Append(answers, answer)

(* HistoryService.removeTemporaryAnswer: the answers of another id stay.    *)
removeTemporaryAnswer(answers, id) ==
    SelectSeq(answers, LAMBDA answer : answer.id # id)

ReaderRequest(handler, requestPc, tempAnswerId, outcome) ==
    [handler |-> handler, pc |-> requestPc, tempAnswerId |-> tempAnswerId,
     outcome |-> outcome]

(* The reader was constructed: no document yet, no request yet.            *)
ReaderInit ==
    /\ readerDocLoaded = FALSE
    /\ dateNow = 0
    /\ requests = <<>>
    /\ temporaryAnswers = <<>>

(* loadDocument succeeded: documentStateService holds a lumiDocManager.    *)
DocumentLoads ==
    /\ ~readerDocLoaded
    /\ readerDocLoaded' = TRUE
    /\ UNCHANGED <<dateNow, requests, temporaryAnswers>>

(* A millisecond passes.                                                   *)
ClockAdvances ==
    /\ dateNow < MaxClock
    /\ dateNow' = dateNow + 1
    /\ UNCHANGED <<readerDocLoaded, requests, temporaryAnswers>>

(* The synchronous part of a handler: the early return without a           *)
(* document, else createTemporaryAnswer and addTemporaryAnswer, then the   *)
(* backend call is awaited.                                                *)
StartRequest(handler) ==
    /\ Len(requests) < MaxRequests
    /\ IF ~readerDocLoaded
       THEN /\ requests' =
                   Append(requests, ReaderRequest(handler, "returned", "", "none"))
            /\ UNCHANGED temporaryAnswers
       ELSE LET request == Len(requests) + 1
                tempAnswer == createTemporaryAnswer(request, dateNow)
            IN  /\ temporaryAnswers' =
                       addTemporaryAnswer(temporaryAnswers, tempAnswer)
                /\ requests' =
                       Append(requests,
                              ReaderRequest(handler, "awaiting", tempAnswer.id,
                                            "none"))
    /\ UNCHANGED <<readerDocLoaded, dateNow>>

(* The continuation of a handler: the call resolved (the answer is added)  *)
(* or rejected (a snackbar is shown); the finally block removes the        *)
(* temporary answer by the id the handler kept.                            *)
RequestSettles(handler) ==
    \E request \in DOMAIN requests, outcome \in {"answered", "snackbar"} :
        /\ requests[request].handler = handler
        /\ requests[request].pc = "awaiting"
        /\ temporaryAnswers' =
               removeTemporaryAnswer(temporaryAnswers,
                                     requests[request].tempAnswerId)
        /\ requests' =
               [requests EXCEPT ![request].pc = "settled",
                                ![request].outcome = outcome]
        /\ UNCHANGED <<readerDocLoaded, dateNow>>

handleDefine == StartRequest("handleDefine")
handleAsk == StartRequest("handleAsk")
fetchPersonalSummary == StartRequest("fetchPersonalSummary")
handleDefineSettles == RequestSettles("handleDefine")
handleAskSettles == RequestSettles("handleAsk")
fetchPersonalSummarySettles == RequestSettles("fetchPersonalSummary")

-----------------------------------------------------------------------------
(* The home gallery (HomeGallery): loadDocument requests the import of a   *)
(* paper, listenForDocReady subscribes to the paper's document, and the    *)
(* snapshot callback ends the subscription on a final status.  A           *)
(* subscription delivers snapshots after onSnapshot returned and until its *)
(* unsubscribe function is called.                                         *)

MaxSubscriptions == 3
MaxImports == 2

GalleryPapers == {"paper-1", "paper-2"}
GalleryPaperOrder == <<"paper-1", "paper-2">>

(* LoadingStatus, the error states as one; "missing" is a snapshot of a    *)
(* document that does not exist.                                           *)
LOADING_STATUS_ERROR_STATES == {"ERROR"}
SnapshotStatuses ==
    {"WAITING", "SUMMARIZING", "SUCCESS", "TIMEOUT", "missing"}
        \cup LOADING_STATUS_ERROR_STATES
FinalStatuses == {"SUCCESS", "TIMEOUT"} \cup LOADING_STATUS_ERROR_STATES

NoSnapshot == [paperId |-> "", loadingStatus |-> "", subscription |-> 0]

(* Calling the Unsubscribe of a subscription.                              *)
unsubscribe(subs, subscription) ==
    [subs EXCEPT ![subscription].active = FALSE]

(* unsubscribeListeners.get(paperId)?.()                                    *)
unsubscribeRegistered(listeners, subs, paperId) ==
    IF paperId \in DOMAIN listeners
    THEN unsubscribe(subs, listeners[paperId])
    ELSE subs

(* A slip in which the listener of the paper is replaced without being     *)
(* unsubscribed first.                                                     *)
listenForDocReadyKeepingOld(gallery, paperId) ==
    LET subs == Append(gallery.subscriptions,
                       [paperId |-> paperId, active |-> TRUE])
    IN  [listeners |-> MapSet(gallery.listeners, paperId, Len(subs)),
         subscriptions |-> subs]

(* listenForDocReady: an existing listener of the paper is unsubscribed,   *)
(* onSnapshot makes a new subscription and its Unsubscribe is registered.  *)
listenForDocReady(gallery, paperId) ==
    LET cancelled == unsubscribeRegistered(gallery.listeners,
                                           gallery.subscriptions, paperId)
        subs == Append(cancelled, [paperId |-> paperId, active |-> TRUE])
    IN  [listeners |-> MapSet(gallery.listeners, paperId, Len(subs)),
         subscriptions |-> subs]

(* connectedCallback: listenForDocReady for every paper of the history     *)
(* whose status is "loading".                                              *)
RECURSIVE listenForLoadingPapers(_, _, _)
listenForLoadingPapers(gallery, papers, status) ==
    IF papers = <<>> THEN gallery
    ELSE listenForLoadingPapers(
             IF status[Head(papers)] = "loading"
             THEN listenForDocReady(gallery, Head(papers))
             ELSE gallery,
             Tail(papers), status)

(* forEach((unsubscribe) => unsubscribe())                                  *)
unsubscribeAll(listeners, subs) ==
    [i \in DOMAIN subs |->
        IF \E paperId \in DOMAIN listeners : listeners[paperId] = i
        THEN [subs[i] EXCEPT !.active = FALSE]
        ELSE subs[i]]

isLoadingDocument ==
    Cardinality(DOMAIN unsubscribeListeners) > 0 \/ isLoadingMetadata

(* new HomeGallery(), with the history the local storage gave.             *)
GalleryInit ==
    /\ galleryConnected = FALSE
    /\ isLoadingMetadata = FALSE
    /\ imports = <<>>
    /\ unsubscribeListeners = EmptyDict
    /\ subscriptions = <<>>
    /\ paperStatus \in [GalleryPapers -> {"none", "loading", "complete"}]
    /\ handledSnapshot = NoSnapshot

(* The gallery as it is left alone by the other specifications.            *)
GalleryIdle ==
    /\ GalleryInit
    /\ paperStatus = [paperId \in GalleryPapers |-> "none"]

connectedCallback ==
    /\ ~galleryConnected
    /\ Len(subscriptions)
           + Cardinality({paperId \in GalleryPapers :
                              paperStatus[paperId] = "loading"})
         <= MaxSubscriptions
    /\ galleryConnected' = TRUE
    /\ LET gallery == listenForLoadingPapers(
                          [listeners |-> unsubscribeListeners,
                           subscriptions |-> subscriptions],
                          GalleryPaperOrder, paperStatus)
       IN  /\ unsubscribeListeners' = gallery.listeners
           /\ subscriptions' = gallery.subscriptions
    /\ handledSnapshot' = NoSnapshot
    /\ UNCHANGED <<isLoadingMetadata, imports, paperStatus>>

disconnectedCallback ==
    /\ galleryConnected
    /\ galleryConnected' = FALSE
    /\ subscriptions' = unsubscribeAll(unsubscribeListeners, subscriptions)
    /\ unsubscribeListeners' = EmptyDict
    /\ handledSnapshot' = NoSnapshot
    /\ UNCHANGED <<isLoadingMetadata, imports, paperStatus>>

(* loadDocument up to its await: a valid paper id was entered, the import  *)
(* is requested.                                                           *)
loadDocument ==
    /\ galleryConnected
    /\ Len(imports) < MaxImports
    /\ \E paperId \in GalleryPapers :
           imports' = Append(imports, [paperId |-> paperId, pc |-> "awaiting"])
    /\ isLoadingMetadata' = TRUE
    /\ handledSnapshot' = NoSnapshot
    /\ UNCHANGED <<galleryConnected, unsubscribeListeners, subscriptions,
                   paperStatus>>

(* loadDocument after its await: the request was rejected, or the response *)
(* holds an error or no metadata, and the handler returns; else the paper  *)
(* is added to the history as loading and listened for.                    *)
loadDocumentSettles ==
    \E import \in DOMAIN imports,
       outcome \in {"rejected", "error", "no metadata", "metadata"} :
        /\ imports[import].pc = "awaiting"
        /\ outcome = "metadata" => Len(subscriptions) < MaxSubscriptions
        /\ imports' = [imports EXCEPT ![import].pc = outcome]
        /\ isLoadingMetadata' = FALSE
        /\ IF outcome = "metadata"
           THEN LET paperId == imports[import].paperId
                    gallery == listenForDocReady(
                                   [listeners |-> unsubscribeListeners,
                                    subscriptions |-> subscriptions], paperId)
                IN  /\ paperStatus' = [paperStatus EXCEPT ![paperId] = "loading"]
                    /\ unsubscribeListeners' = gallery.listeners
                    /\ subscriptions' = gallery.subscriptions
           ELSE UNCHANGED <<paperStatus, unsubscribeListeners, subscriptions>>
        /\ handledSnapshot' = NoSnapshot
        /\ UNCHANGED galleryConnected

(* The snapshot callback of a live subscription.                           *)
onDocSnapshot ==
    \E subscription \in DOMAIN subscriptions,
       loadingStatus \in SnapshotStatuses :
        LET paperId == subscriptions[subscription].paperId IN
        /\ subscriptions[subscription].active
        /\ handledSnapshot' =
               [paperId |-> paperId, loadingStatus |-> loadingStatus,
                subscription |-> subscription]
        /\ IF loadingStatus \in FinalStatuses
           THEN /\ paperStatus' =
                       [paperStatus EXCEPT ![paperId] =
                           IF loadingStatus = "SUCCESS" THEN "complete"
                           ELSE "none"]
                /\ subscriptions' =
                       unsubscribeRegistered(unsubscribeListeners,
                                             subscriptions, paperId)
                /\ unsubscribeListeners' =
                       MapDelete(unsubscribeListeners, paperId)
           ELSE UNCHANGED <<paperStatus, subscriptions, unsubscribeListeners>>
        /\ UNCHANGED <<galleryConnected, isLoadingMetadata, imports>>

-----------------------------------------------------------------------------
(* The floating panel service (FloatingPanelService) and the props of its  *)
(* contents.  An optional field of the props is Absent or Some(value);     *)
(* null is Absent.                                                         *)

MaxPanelCalls == 4

ANCHOR_CORNER_DEFAULT == "start-start"
MENU_CORNER_DEFAULT == "end-start"

TargetElements == {"target-1", "target-2"}

(* new FloatingPanelContentProps subclass that sets no placement field.    *)
PlainProps(kind) ==
    [kind |-> kind, anchorCorner |-> Absent, menuCorner |-> Absent,
     hasFlatContainer |-> Absent]

(* new OverflowMenuProps(items)                                             *)
OverflowMenuProps ==
    [kind |-> "OverflowMenuProps", anchorCorner |-> Some("start-end"),
     menuCorner |-> Some("end-end"), hasFlatContainer |-> Absent]

(* new InfoTooltipProps(text)                                               *)
InfoTooltipProps ==
    [kind |-> "InfoTooltipProps", anchorCorner |-> Some("end-start"),
     menuCorner |-> Some("start-start"), hasFlatContainer |-> Some(TRUE)]

PanelProps ==
    {PlainProps(kind) :
        kind \in {"SmartHighlightMenuProps", "ReferenceTooltipProps",
                  "ConceptTooltipProps", "FootnoteTooltipProps",
                  "AnswerHighlightTooltipProps"}}
        \cup {OverflowMenuProps, InfoTooltipProps}

(* if (props.corner) { this.corner = props.corner }: a corner is a        *)
(* non-empty string, so it is taken when it is there.                      *)
TakeCorner(current, corner) ==
    IF IsPresent(corner) THEN corner[1] ELSE current

(* if (props.hasFlatContainer) { ... }: taken when it is true; an absent   *)
(* value and false leave the service's value as it was.                    *)
TakeFlatContainer(current, flat) ==
    IF flat = Some(TRUE) THEN flat ELSE current

(* new FloatingPanelService(provider)                                       *)
PanelInit ==
    /\ isVisible = FALSE
    /\ targetElement = Absent
    /\ contentProps = Absent
    /\ anchorCorner = ANCHOR_CORNER_DEFAULT
    /\ menuCorner = MENU_CORNER_DEFAULT
    /\ hasFlatContainer = Absent
    /\ panelCallCount = 0

show ==
    /\ panelCallCount < MaxPanelCalls
    /\ \E props \in PanelProps, target \in TargetElements :
           /\ contentProps' = Some(props)
           /\ targetElement' = Some(target)
           /\ anchorCorner' = TakeCorner(anchorCorner, props.anchorCorner)
           /\ menuCorner' = TakeCorner(menuCorner, props.menuCorner)
           /\ hasFlatContainer' =
                  TakeFlatContainer(hasFlatContainer, props.hasFlatContainer)
    /\ isVisible' = TRUE
    /\ panelCallCount' = panelCallCount + 1

hide ==
    /\ panelCallCount < MaxPanelCalls
    /\ isVisible' = FALSE
    /\ targetElement' = Absent
    /\ contentProps' = Absent
    /\ anchorCorner' = ANCHOR_CORNER_DEFAULT
    /\ menuCorner' = MENU_CORNER_DEFAULT
    /\ hasFlatContainer' = Absent
    /\ panelCallCount' = panelCallCount + 1

(* The services and managers outside the specification at hand have just   *)
(* been constructed.                                                       *)
ServiceIdle == CollapseInit /\ ReaderInit /\ GalleryIdle /\ PanelInit

-----------------------------------------------------------------------------
(* The DOM a rendered <lumi-span> gives: its emitted units as the children *)
(* of the span that getOffsetInLumiSpan counts in. html`` gives no node.   *)

kidOfUnit(unit) ==
    IF unit.type = "char" THEN "char"
    ELSE IF unit.type = "equation" THEN "equation"
    ELSE IF unit.kind = "citation-marker" THEN "citation"
    ELSE IF unit.kind = "footnote-marker" THEN "footnote"
    ELSE "span-citation"

shownUnits(rendered) == SelectSeq(rendered, LAMBDA e : e.unit.type # "empty")

renderedDom(lumiSpan, rendered) ==
    LET shown == shownUnits(rendered)
    IN  DomOf(<< << [kind |-> "unit", id |-> lumiSpan.id,
                     kids |-> [j \in 1..Len(shown) |-> kidOfUnit(shown[j].unit)]]
                 >> >>)

-----------------------------------------------------------------------------
(* The <lumi-span> component                                               *)

SpanId == "s1"
Fonts == {Absent, Some("font-serif")}

(* The component after its properties were bound: a span of up to MaxLen   *)
(* characters whose tags and highlights number MaxItems at most.           *)
SpanInit ==
    \E n \in 0..MaxLen, nt \in 0..MaxItems :
      \E nu \in 0..(MaxItems - nt) :
        \E na \in 0..(MaxItems - nt - nu) :
          /\ span \in {[id |-> SpanId, text |-> Text(n), innerTags |-> f] :
                          f \in TagForests(n, nt)}
          /\ highlights \in
                 {getSpanHighlightsFromManagers(SpanId,
                      [k \in {SpanId} |-> u], [k \in {SpanId} |-> a]) :
                      u \in SeqsOfLen(UserHighlights(SpanId, n), nu),
                      a \in SeqsOfLen(AnswerHighlights(SpanId, n), na)}
          /\ font \in Fonts
          /\ pc = "props"
          /\ path = "none"
          /\ formattingCounters = <<>>
          /\ renderedContent = <<>>

(* updated() -> calculateRenderedContent()                                 *)
Render ==
    /\ pc = "props"
    /\ LET r == calculateRenderedContent(span, highlights, font)
       IN  /\ path' = r.path
           /\ formattingCounters' = r.formattingCounters
           /\ renderedContent' = r.parts
    /\ pc' = "rendered"
    /\ UNCHANGED <<span, highlights, font>>

OtherIdle == FlattenIdle /\ ResolverIdle /\ DocIdle /\ ServiceIdle

InitSpan == StoreInit /\ SpanInit /\ OtherIdle

NextSpan == Render /\ UNCHANGED <<storeVars, otherVars>>

SpecSpan == InitSpan /\ [][NextSpan]_vars

-----------------------------------------------------------------------------
(* The <lumi-span> component is idle in the store's specification.         *)
SpanIdle ==
    /\ span = [id |-> "s1", text |-> <<>>, innerTags |-> <<>>]
    /\ highlights = <<>>
    /\ font = Absent
    /\ pc = "props"
    /\ path = "none"
    /\ formattingCounters = <<>>
    /\ renderedContent = <<>>

Init == StoreInit /\ SpanIdle /\ OtherIdle

Next ==
    \/ CallAddHighlights /\ UNCHANGED <<spanVars, otherVars>>
    \/ CallRemoveHighlights /\ UNCHANGED <<spanVars, otherVars>>
    \/ CallAddImageHighlight /\ UNCHANGED <<spanVars, otherVars>>
    \/ CallRemoveImageHighlight /\ UNCHANGED <<spanVars, otherVars>>
    \/ CallClearHighlights /\ UNCHANGED <<spanVars, otherVars>>

Spec == Init /\ [][Next]_vars

(* A top-level call of flattenTags on a tree of up to MaxTags tags.        *)
InitFlatten ==
    StoreInit /\ SpanIdle /\ FlattenInit /\ ResolverIdle /\ DocIdle /\ ServiceIdle

NextFlatten ==
    Flatten
        /\ UNCHANGED <<storeVars, spanVars, resolverVars, docVars, serviceVars>>

SpecFlatten == InitFlatten /\ [][NextFlatten]_vars

(* One call of getSelectionInfo on a selection over a rendered document.   *)
InitResolver ==
    StoreInit /\ SpanIdle /\ FlattenIdle /\ ResolverInit /\ DocIdle /\ ServiceIdle

NextResolver ==
    Resolve
        /\ UNCHANGED <<storeVars, spanVars, flattenVars, docVars, serviceVars>>

SpecResolver == InitResolver /\ [][NextResolver]_vars

(* The answer-driven store driven by its calls.                            *)
InitAnswers == StoreInit /\ SpanIdle /\ OtherIdle

NextAnswers ==
    \/ CallAddAnswer /\ UNCHANGED <<spanVars, otherVars>>
    \/ CallPopulateFromAnswers /\ UNCHANGED <<spanVars, otherVars>>
    \/ CallClearAnswerHighlights /\ UNCHANGED <<spanVars, otherVars>>

SpecAnswers == InitAnswers /\ [][NextAnswers]_vars

(* One query of the index of a document: the section of a span, or the    *)
(* span of an id.                                                          *)
InitDoc ==
    StoreInit /\ SpanIdle /\ FlattenIdle /\ ResolverIdle /\ DocInit /\ ServiceIdle

NextDoc ==
    \/ GetSectionForSpan
           /\ UNCHANGED <<storeVars, spanVars, flattenVars, resolverVars,
                          serviceVars>>
    \/ GetSpanById
           /\ UNCHANGED <<storeVars, spanVars, flattenVars, resolverVars,
                          serviceVars>>

SpecDoc == InitDoc /\ [][NextDoc]_vars

(* The collapse manager driven by its calls.                               *)
FrontIdle == StoreInit /\ SpanIdle /\ FlattenIdle /\ ResolverIdle /\ DocIdle
frontVars == <<storeVars, spanVars, flattenVars, resolverVars, docVars>>

InitCollapse == FrontIdle /\ ServiceIdle

NextCollapse ==
    \/ CallInitialize
           /\ UNCHANGED <<frontVars, readerVars, galleryVars, panelVars>>
    \/ CallSetAnswerCollapsed
           /\ UNCHANGED <<frontVars, readerVars, galleryVars, panelVars>>
    \/ CallToggleAnswerCollapsed
           /\ UNCHANGED <<frontVars, readerVars, galleryVars, panelVars>>
    \/ CallCollapseAllAnswersExcept
           /\ UNCHANGED <<frontVars, readerVars, galleryVars, panelVars>>

SpecCollapse == InitCollapse /\ [][NextCollapse]_vars

(* The reader's requests: the document loads, time passes, the handlers    *)
(* are called and the backend calls settle in any order.                   *)
InitReader == FrontIdle /\ ServiceIdle

ReaderSettles ==
    \/ handleDefineSettles
    \/ handleAskSettles
    \/ fetchPersonalSummarySettles

NextReader ==
    \/ DocumentLoads
           /\ UNCHANGED <<frontVars, collapseVars, galleryVars, panelVars>>
    \/ ClockAdvances
           /\ UNCHANGED <<frontVars, collapseVars, galleryVars, panelVars>>
    \/ handleDefine
           /\ UNCHANGED <<frontVars, collapseVars, galleryVars, panelVars>>
    \/ handleAsk
           /\ UNCHANGED <<frontVars, collapseVars, galleryVars, panelVars>>
    \/ fetchPersonalSummary
           /\ UNCHANGED <<frontVars, collapseVars, galleryVars, panelVars>>
    \/ handleDefineSettles
           /\ UNCHANGED <<frontVars, collapseVars, galleryVars, panelVars>>
    \/ handleAskSettles
           /\ UNCHANGED <<frontVars, collapseVars, galleryVars, panelVars>>
    \/ fetchPersonalSummarySettles
           /\ UNCHANGED <<frontVars, collapseVars, galleryVars, panelVars>>

SpecReader == InitReader /\ [][NextReader]_vars

(* The same with every awaited backend call settling: a pending promise    *)
(* of a call that settles has its continuation run.                        *)
SpecReaderSettling ==
    SpecReader
        /\ WF_vars(ReaderSettles
                     /\ UNCHANGED <<frontVars, collapseVars, galleryVars,
                                    panelVars>>)

(* The home gallery: it is connected and disconnected, papers are          *)
(* imported, and the subscriptions deliver snapshots in any order.         *)
InitGallery ==
    FrontIdle /\ CollapseInit /\ ReaderInit /\ GalleryInit /\ PanelInit

NextGallery ==
    \/ connectedCallback
           /\ UNCHANGED <<frontVars, collapseVars, readerVars, panelVars>>
    \/ disconnectedCallback
           /\ UNCHANGED <<frontVars, collapseVars, readerVars, panelVars>>
    \/ loadDocument
           /\ UNCHANGED <<frontVars, collapseVars, readerVars, panelVars>>
    \/ loadDocumentSettles
           /\ UNCHANGED <<frontVars, collapseVars, readerVars, panelVars>>
    \/ onDocSnapshot
           /\ UNCHANGED <<frontVars, collapseVars, readerVars, panelVars>>

SpecGallery == InitGallery /\ [][NextGallery]_vars

(* The floating panel service driven by its calls.                         *)
InitPanel == FrontIdle /\ ServiceIdle

NextPanel ==
    \/ show
           /\ UNCHANGED <<frontVars, collapseVars, readerVars, galleryVars>>
    \/ hide
           /\ UNCHANGED <<frontVars, collapseVars, readerVars, galleryVars>>

SpecPanel == InitPanel /\ [][NextPanel]_vars

-----------------------------------------------------------------------------
(* Claims about the highlight store.                                       *)

IsReset(call, X) ==
    \/ call.op = "clearHighlights"
    \/ call.op = "removeHighlights" /\ \E i \in 1..Len(call.arg) : call.arg[i] = X

(* The position in calls of the most recent removeHighlights naming X or   *)
(* clearHighlights, 0 when there is none.                                  *)
LastReset(X) ==
    LET resets == {k \in 1..Len(calls) : IsReset(calls[k], X)}
    IN  IF resets = {} THEN 0 ELSE CHOOSE k \in resets : \A j \in resets : j <= k

RECURSIVE AddedSince(_, _)
AddedSince(k, X) ==
    IF k > Len(calls) THEN <<>>
    ELSE (IF calls[k].op = "addHighlights"
          THEN SelectSeq(calls[k].arg, LAMBDA h : h.spanId = X)
          ELSE <<>>) \o AddedSince(k + 1, X)

(* C1: after any sequence of addHighlights, removeHighlights and           *)
(* clearHighlights calls, getSpanHighlights(X) is exactly the highlights   *)
(* of span X added since the most recent removeHighlights naming X or      *)
(* clearHighlights, in the order added, and empty when there are none.     *)
C1_StoreHoldsAddedSinceReset ==
    \A X \in StoreSpanIds \cup {UnknownSpanId} :
        getSpanHighlights(highlightedSpans, X) = AddedSince(LastReset(X) + 1, X)

(* Two adds to one span after a remove of it, then a query with both.      *)
C1_Witness ==
    /\ Len(calls) = MaxCalls
    /\ calls[1].op = "addHighlights" /\ Len(calls[1].arg) = 2
    /\ calls[2].op = "removeHighlights" /\ calls[2].arg = <<"span-1">>
    /\ calls[3].op = "addHighlights"
    /\ Len(getSpanHighlights(highlightedSpans, "span-1")) = 2
    /\ Len(getSpanHighlights(highlightedSpans, "span-2")) = 1
    /\ getSpanHighlights(highlightedSpans, "span-1")[1].color = "yellow"
    /\ getSpanHighlights(highlightedSpans, "span-1")[2].color = "cyan"

LastCall == calls[Len(calls)]
Named(ids) == {ids[i] : i \in 1..Len(ids)}

(* C2: a removeHighlights(ids) call deletes the whole list of every listed *)
(* span id and changes nothing else: the lists of all other span ids and   *)
(* the image set are as before; a listed id without entries is a no-op.    *)
C2_RemoveFrame ==
    [][(calls' # calls /\ calls'[Len(calls')].op = "removeHighlights") =>
          LET ids == Named(calls'[Len(calls')].arg)
          IN  /\ DOMAIN highlightedSpans' = (DOMAIN highlightedSpans) \ ids
              /\ \A X \in DOMAIN highlightedSpans' :
                     highlightedSpans'[X] = highlightedSpans[X]
              /\ highlightedImages' = highlightedImages]_vars

(* A remove naming an id without entries and an id with two highlights,    *)
(* while another span keeps its highlight.                                 *)
C2_Witness ==
    /\ Len(calls) = 2
    /\ calls[1].op = "addHighlights" /\ Len(calls[1].arg) = 2
    /\ LastCall.op = "removeHighlights"
    /\ LastCall.arg = <<UnknownSpanId, "span-1">>
    /\ DOMAIN highlightedSpans = {"span-2"}

-----------------------------------------------------------------------------
(* Claims about the compositor (SpecSpan).                                 *)

Rendered == pc = "rendered"
TextLength == Len(span.text)
Indices == 0..(TextLength - 1)
AllInnerTags == flattenTags(span.innerTags, 0)
TagKinds == {t.tagName : t \in TagTemplates}

(* Half-open cover of index i.                                             *)
Covers(position, i) == position.startIndex <= i /\ i < position.endIndex

HighlightCovers(h, i) ==
    IF IsPresent(h.position) THEN Covers(h.position[1], i) ELSE TRUE

(* What the compositor marked at index i: nothing on the plain path, which *)
(* makes no counters.                                                      *)
MarkedAt(i) ==
    IF path = "general" THEN DOMAIN formattingCounters[i + 1] ELSE {}

(* C3: for every character index i of the span, a tag kind K is marked at  *)
(* i iff some flattened tag of kind K has start <= i < end, and a          *)
(* highlight is marked at i iff some supplied highlight has no range or    *)
(* a range with start <= i < end.                                          *)
C3_MarksAreHalfOpenCovers ==
    Rendered =>
        \A i \in Indices :
            /\ \A K \in TagKinds :
                   (K \in MarkedAt(i)) <=>
                       \E k \in 1..Len(AllInnerTags) :
                           /\ AllInnerTags[k].tagName = K
                           /\ Covers(AllInnerTags[k].position, i)
            /\ (GENERAL_HIGHLIGHT_KEY \in MarkedAt(i)) <=>
                   \E k \in 1..Len(highlights) : HighlightCovers(highlights[k], i)

(* A tag and a ranged highlight that each cover the first character and    *)
(* end before the last one.                                                *)
C3_Witness ==
    /\ Rendered /\ TextLength = MaxLen
    /\ \E K \in TagKinds : K \in MarkedAt(0) /\ K \notin MarkedAt(TextLength - 1)
    /\ GENERAL_HIGHLIGHT_KEY \in MarkedAt(0)
    /\ GENERAL_HIGHLIGHT_KEY \notin MarkedAt(TextLength - 1)
    /\ \E k \in 1..Len(highlights) : IsPresent(highlights[k].position)

CoveringHighlights(i) == {k \in 1..Len(highlights) : HighlightCovers(highlights[k], i)}

HighlightDecision(i) == formattingCounters[i + 1][GENERAL_HIGHLIGHT_KEY]

(* The decision holds the color and the metadata of highlight h.           *)
DecisionHolds(i, h) ==
    /\ GENERAL_HIGHLIGHT_KEY \in MarkedAt(i)
    /\ HighlightDecision(i)[COLOR_HIGHLIGHT_KEY] = h.color
    /\ IsPresent(h.metadata) =>
           \A key \in DOMAIN h.metadata[1] :
               /\ key \in DOMAIN HighlightDecision(i)
               /\ HighlightDecision(i)[key] = h.metadata[1][key]

(* C4 as claimed: the decision of every character index holds the color   *)
(* and metadata of every highlight whose interval covers the index.        *)
C4_HoldsEveryCoveringHighlight ==
    Rendered =>
        \A i \in Indices : \A k \in CoveringHighlights(i) : DecisionHolds(i, highlights[k])

(* C4 as amended: the decision of every character index holds the color   *)
(* and metadata of exactly one highlight, the last one in the supplied     *)
(* order (user-driven store first, then answer-driven store) whose         *)
(* interval covers the index, and nothing of the earlier ones.             *)
C4_HoldsLastCoveringHighlight ==
    Rendered =>
        \A i \in Indices :
            CoveringHighlights(i) # {} =>
                LET last == CHOOSE k \in CoveringHighlights(i) :
                                \A j \in CoveringHighlights(i) : j <= k
                    h == highlights[last]
                IN  /\ DecisionHolds(i, h)
                    /\ DOMAIN HighlightDecision(i) =
                           {COLOR_HIGHLIGHT_KEY} \cup
                               (IF IsPresent(h.metadata) THEN DOMAIN h.metadata[1] ELSE {})

(* A user highlight and an answer highlight of another color on the same   *)
(* character.                                                              *)
C4_Witness ==
    /\ Rendered /\ Len(highlights) = 2
    /\ highlights[1].color = "yellow" /\ highlights[2].color = "green"
    /\ \E i \in Indices :
           /\ CoveringHighlights(i) = {1, 2}
           /\ HighlightDecision(i)[COLOR_HIGHLIGHT_KEY] = "green"

(* C10: where two or more flattened tags of one kind cover a character,    *)
(* the metadata recorded for the kind is the union of their metadata, and  *)
(* every key has the value of the earliest tag of the flattened list that  *)
(* has the key.                                                            *)
C10_EarlierTagWinsMetadata ==
    Rendered =>
        \A i \in Indices : \A K \in TagKinds \cap MarkedAt(i) :
            LET covering == {k \in 1..Len(AllInnerTags) :
                                /\ AllInnerTags[k].tagName = K
                                /\ Covers(AllInnerTags[k].position, i)}
                keys == UNION {DOMAIN AllInnerTags[k].metadata : k \in covering}
                recorded == formattingCounters[i + 1][K]
            IN  /\ DOMAIN recorded = keys
                /\ \A key \in keys :
                       LET having == {k \in covering : key \in DOMAIN AllInnerTags[k].metadata}
                           first == CHOOSE k \in having : \A j \in having : k <= j
                       IN  recorded[key] = AllInnerTags[first].metadata[key]

(* Two links on one character: the href of the first, the title of the     *)
(* second.                                                                 *)
C10_Witness ==
    /\ Rendered /\ Len(AllInnerTags) = 2
    /\ AllInnerTags[1].tagName = A /\ AllInnerTags[2].tagName = A
    /\ AllInnerTags[1].metadata = [href |-> "u1"]
    /\ AllInnerTags[2].metadata = [href |-> "u2", title |-> "t2"]
    /\ \E i \in Indices :
           /\ Covers(AllInnerTags[1].position, i) /\ Covers(AllInnerTags[2].position, i)
           /\ formattingCounters[i + 1][A] = [href |-> "u1", title |-> "t2"]

MathAt(i) == MATH \in MarkedAt(i) \/ MATH_DISPLAY \in MarkedAt(i)

(* The entries of renderedContent of one type, in output order.            *)
EntriesOfType(type) == SelectSeq(renderedContent, LAMBDA e : e.unit.type = type)

(* [a, b) is a maximal run of characters carrying math kind K.             *)
IsMaximalRun(K, a, b) ==
    /\ \A i \in a..(b - 1) : K \in MarkedAt(i)
    /\ a = 0 \/ K \notin MarkedAt(a - 1)
    /\ b = TextLength \/ K \notin MarkedAt(b)

(* The run [a, b) is one equation unit and none of its characters is a     *)
(* per-character unit.                                                     *)
RunIsOneEquation(a, b) ==
    /\ Cardinality({p \in 1..Len(renderedContent) :
           /\ renderedContent[p].unit.type = "equation"
           /\ renderedContent[p].unit.text = SubSeq(span.text, a + 1, b)}) = 1
    /\ \A p \in 1..Len(renderedContent) :
           renderedContent[p].unit.type = "char" =>
               renderedContent[p].at \notin a..(b - 1)

EveryMathRunIsOneEquation ==
    \A K \in {MATH, MATH_DISPLAY} :
        \A a \in Indices : \A b \in (a + 1)..TextLength :
            IsMaximalRun(K, a, b) => RunIsOneEquation(a, b)

(* C5 as claimed: every maximal contiguous run of characters carrying the *)
(* same math kind (math or display-math) is emitted as exactly one         *)
(* equation unit holding the run's characters in text order, and none of   *)
(* its characters is also emitted as a per-character unit.                 *)
C5_EveryMathRunIsOneEquation == Rendered => EveryMathRunIsOneEquation

(* The kind that decides where the equation of character i ends: math when *)
(* the character carries math, display-math otherwise.                     *)
DecidingKind(i) == IF MATH \in MarkedAt(i) THEN MATH ELSE MATH_DISPLAY

EndsEquation(i) ==
    MathAt(i) /\ (i = TextLength - 1 \/ DecidingKind(i) \notin MarkedAt(i + 1))

(* The first character of the equation that ends at e.                     *)
EquationStart(e) ==
    CHOOSE s \in 0..e :
        /\ \A j \in s..(e - 1) : MathAt(j) /\ ~EndsEquation(j)
        /\ s = 0 \/ ~MathAt(s - 1) \/ EndsEquation(s - 1)

NoDoubleMathKind ==
    \A i \in Indices : ~(MATH \in MarkedAt(i) /\ MATH_DISPLAY \in MarkedAt(i))

(* C5 as amended: the characters carrying a math kind are emitted in       *)
(* equation units only, one unit per segment, in text order; a segment     *)
(* ends at the first index i that is the last of the text or whose next    *)
(* index does not carry the deciding kind of i (math if i carries math,    *)
(* display-math otherwise). Where no character carries both kinds the      *)
(* segments are the maximal runs of one kind, as claimed.                  *)
C5_EquationsBySegments ==
    Rendered =>
        LET ends == {i \in Indices : EndsEquation(i)}
            equations == EntriesOfType("equation")
        IN  /\ Len(equations) = Cardinality(ends)
            /\ \A p \in 1..Len(equations) :
                   LET e == CHOOSE x \in ends : Cardinality({y \in ends : y <= x}) = p
                   IN  /\ equations[p].at = e
                       /\ equations[p].unit.text =
                              SubSeq(span.text, EquationStart(e) + 1, e + 1)
            /\ \A p \in 1..Len(renderedContent) :
                   renderedContent[p].unit.type \in {"char", "empty"} =>
                       ~MathAt(renderedContent[p].at)
            /\ NoDoubleMathKind => EveryMathRunIsOneEquation

(* A display-math run of two characters whose first character also         *)
(* carries math: two equation units.                                       *)
C5_Witness ==
    /\ Rendered /\ TextLength = 2
    /\ MarkedAt(0) = {MATH, MATH_DISPLAY} /\ MarkedAt(1) = {MATH_DISPLAY}
    /\ Len(renderedContent) = 2
    /\ renderedContent[1].unit = renderEquation(<<"p">>, TRUE)
    /\ renderedContent[2].unit = renderEquation(<<"q">>, TRUE)

(* The flattened tags that are reference-like, resolve, and start inside   *)
(* the text or at its end.                                                 *)
ResolvingReferenceTags ==
    {k \in 1..Len(AllInnerTags) :
        /\ IsPresent(InsertionOf(AllInnerTags[k], k))
        /\ AllInnerTags[k].position.startIndex \in 0..TextLength}

SameMarker(k1, k2) ==
    /\ AllInnerTags[k1].position.startIndex = AllInnerTags[k2].position.startIndex
    /\ InsertionOf(AllInnerTags[k1], 0) = InsertionOf(AllInnerTags[k2], 0)

(* C6 as claimed: every reference-like tag of the span whose target        *)
(* resolves, at any nesting depth, produces exactly one insertion anchored *)
(* at the tag's absolute start offset, and the characters the tag covers   *)
(* are not rendered as character units.                                    *)
C6_EveryReferenceTagInserts ==
    Rendered =>
        \A k \in ResolvingReferenceTags :
            LET marker == InsertionOf(AllInnerTags[k], 0)[1]
                start == AllInnerTags[k].position.startIndex
            IN  /\ Cardinality({p \in 1..Len(renderedContent) :
                       /\ renderedContent[p].unit.type = "insertion"
                       /\ renderedContent[p].at = start
                       /\ renderedContent[p].unit.kind = marker.kind
                       /\ renderedContent[p].unit.labels = marker.labels})
                     = Cardinality({k2 \in ResolvingReferenceTags : SameMarker(k, k2)})
                /\ \A p \in 1..Len(renderedContent) :
                       renderedContent[p].unit.type = "char" =>
                           ~Covers(AllInnerTags[k].position, renderedContent[p].at)

InsertionEntries ==
    {p \in 1..Len(renderedContent) : renderedContent[p].unit.type = "insertion"}

(* C7: every insertion of the map whose offset lies in 0..length is        *)
(* emitted once, at its offset; insertions that share an offset are        *)
(* adjacent and in the order of their source tags; an insertion at the     *)
(* text length comes after the units of all characters.                    *)
C7_InsertionsInTagOrder ==
    Rendered =>
        LET R == renderedContent
        IN  /\ \A p \in InsertionEntries :
                   R[p].at = span.innerTags[R[p].unit.src].position.startIndex
            /\ \A p \in InsertionEntries : \A q \in InsertionEntries :
                   (p < q /\ R[p].at = R[q].at) =>
                       /\ R[p].unit.src < R[q].unit.src
                       /\ \A m \in p..q : m \in InsertionEntries /\ R[m].at = R[p].at
            /\ \A p \in InsertionEntries :
                   R[p].at = TextLength =>
                       \A q \in (1..Len(R)) \ InsertionEntries : q < p
            /\ \A p \in InsertionEntries : \A q \in InsertionEntries :
                   p # q => R[p].unit.src # R[q].unit.src
            /\ \A j \in 1..Len(span.innerTags) :
                   (/\ IsPresent(InsertionOf(span.innerTags[j], j))
                    /\ span.innerTags[j].position.startIndex \in 0..TextLength) =>
                       \E p \in InsertionEntries :
                           R[p].unit = InsertionOf(span.innerTags[j], j)[1]

(* Two markers at the end of a text of MaxLen characters, after the last   *)
(* character's unit, in tag order.                                         *)
C7_Witness ==
    /\ Rendered /\ TextLength = MaxLen
    /\ Len(renderedContent) = TextLength + 2
    /\ renderedContent[TextLength].unit.type = "char"
    /\ renderedContent[TextLength + 1] =
           [at |-> TextLength, unit |-> Insertion("citation-marker", <<1>>, 1)]
    /\ renderedContent[TextLength + 2] =
           [at |-> TextLength, unit |-> Insertion("span-citation-marker", <<2>>, 2)]

(* C8: a span without tags and highlights (hence without insertions)      *)
(* takes the plain path, which emits one formatting-free unit per          *)
(* character in text order, the same output as the general path gives.     *)
C8_PlainPathEqualsGeneralPath ==
    Rendered =>
        /\ (span.innerTags = <<>> /\ highlights = <<>>) <=> path = "plain"
        /\ path = "plain" =>
               /\ Len(renderedContent) = TextLength
               /\ \A i \in Indices :
                      /\ renderedContent[i + 1].at = i
                      /\ renderedContent[i + 1].unit.type = "char"
                      /\ renderedContent[i + 1].unit.char = span.text[i + 1]
                      /\ renderedContent[i + 1].unit.click = Absent
               /\ renderedContent = generalPath(span, highlights, font).parts

(* A plain span of MaxLen characters with a font.                          *)
C8_Witness ==
    /\ Rendered /\ path = "plain" /\ TextLength = MaxLen /\ IsPresent(font)
    /\ Len(renderedContent) = MaxLen

Clip(x) == IF x < 0 THEN 0 ELSE IF x > TextLength THEN TextLength ELSE x
ClipPosition(position) == Position(Clip(position.startIndex), Clip(position.endIndex))
ClippedTags == [k \in 1..Len(AllInnerTags) |->
                   [AllInnerTags[k] EXCEPT !.position = ClipPosition(@)]]
ClippedHighlights ==
    [k \in 1..Len(highlights) |->
        IF IsPresent(highlights[k].position)
        THEN [highlights[k] EXCEPT !.position = Some(ClipPosition(@[1]))]
        ELSE highlights[k]]

(* C9: with malformed offsets (negative start, end beyond the text,        *)
(* start >= end, overlaps) the pass completes, no counter exists outside   *)
(* 0..length-1, and every character's decision is the one computed from    *)
(* the intervals clipped to [0, length).                                   *)
C9_MalformedOffsetsAreClipped ==
    (Rendered /\ path = "general") =>
        /\ Len(formattingCounters) = TextLength
        /\ formattingCounters =
               computeFormattingCounters(span, ClippedTags, ClippedHighlights)

(* A tag and a highlight that both start before the text and end beyond    *)
(* it.                                                                     *)
C9_Witness ==
    /\ Rendered /\ TextLength = MaxLen
    /\ \E k \in 1..Len(AllInnerTags) :
           /\ AllInnerTags[k].position.startIndex < 0
           /\ AllInnerTags[k].position.endIndex > TextLength
    /\ \E k \in 1..Len(highlights) :
           /\ IsPresent(highlights[k].position)
           /\ highlights[k].position[1].startIndex < 0
           /\ highlights[k].position[1].endIndex > TextLength
    /\ \A i \in Indices : Cardinality(MarkedAt(i)) = 2

-----------------------------------------------------------------------------
(* Claims about flattenTags.                                               *)

(* The tags of a forest, each named by its path: the 1-based places of its *)
(* ancestors and of itself among their siblings, outermost first.          *)
RECURSIVE TreePaths(_)
TreePaths(forest) ==
    UNION { {<<i>>} \cup {<<i>> \o q : q \in TreePaths(forest[i].children)} :
              i \in 1..Len(forest) }

RECURSIVE NodeAt(_, _)
NodeAt(forest, p) ==
    IF Len(p) = 1 THEN forest[p[1]] ELSE NodeAt(forest[p[1]].children, Tail(p))

(* Depth-first pre-order on paths: a tag comes before its descendants, and *)
(* the whole subtree of a tag before the tag's later siblings.             *)
PathBefore(p, q) ==
    \E k \in 1..Len(q) :
        /\ k - 1 <= Len(p)
        /\ \A j \in 1..(k - 1) : p[j] = q[j]
        /\ \/ Len(p) = k - 1
           \/ Len(p) >= k /\ p[k] < q[k]

PreOrderRank(forest, p) ==
    Cardinality({q \in TreePaths(forest) : PathBefore(q, p)}) + 1

(* The sum of the relative start offsets of the proper ancestors of p.     *)
RECURSIVE AncestorStartSum(_, _)
AncestorStartSum(forest, p) ==
    IF Len(p) <= 1 THEN 0
    ELSE LET parent == SubSeq(p, 1, Len(p) - 1)
         IN  NodeAt(forest, parent).position.startIndex + AncestorStartSum(forest, parent)

Flattened == flattenPc = "flattened"

(* C11: for every tag tree, each tag of the output of flattenTags has      *)
(* absolute start and end equal to its own relative start and end plus the *)
(* sum of the relative start offsets of all its ancestors; a top-level tag *)
(* keeps its offsets.                                                      *)
C11_AbsoluteOffsetsSumAncestors ==
    Flattened =>
        \A p \in TreePaths(tagTree) :
            LET tag == NodeAt(tagTree, p)
                out == flattened[PreOrderRank(tagTree, p)]
                shift == AncestorStartSum(tagTree, p)
            IN  /\ out.position.startIndex = tag.position.startIndex + shift
                /\ out.position.endIndex = tag.position.endIndex + shift
                /\ Len(p) = 1 => out.position = tag.position

(* A tag two levels down whose parent and grandparent both start past 0.   *)
C11_Witness ==
    /\ Flattened
    /\ \E p \in TreePaths(tagTree) :
           /\ Len(p) = 3
           /\ NodeAt(tagTree, SubSeq(p, 1, 1)).position.startIndex > 0
           /\ NodeAt(tagTree, SubSeq(p, 1, 2)).position.startIndex > 0
           /\ flattened[PreOrderRank(tagTree, p)].position.startIndex
                  = NodeAt(tagTree, p).position.startIndex + 2

(* C12: the output of flattenTags has exactly one entry per tag of the     *)
(* input tree, in depth-first pre-order; each entry has its children       *)
(* cleared and its kind and metadata unchanged; the input is not modified. *)
C12_OneEntryPerTagInPreOrder ==
    [][ flattenPc' = "flattened" =>
          /\ tagTree' = tagTree
          /\ Len(flattened') = Cardinality(TreePaths(tagTree))
          /\ \A p \in TreePaths(tagTree) :
                 LET tag == NodeAt(tagTree, p)
                     out == flattened'[PreOrderRank(tagTree, p)]
                 IN  /\ out.tagName = tag.tagName
                     /\ out.metadata = tag.metadata
                     /\ out.children = <<>> ]_vars

(* A tag with a child and a later sibling of another kind: the child comes *)
(* between the two.                                                        *)
C12_Witness ==
    /\ Flattened
    /\ Len(tagTree) = 2
    /\ Len(tagTree[1].children) = 1
    /\ tagTree[1].children[1].tagName # tagTree[2].tagName
    /\ flattened[2].tagName = tagTree[1].children[1].tagName
    /\ flattened[3].tagName = tagTree[2].tagName

-----------------------------------------------------------------------------
(* Claims about getSelectionInfo.                                          *)

Resolved == resolverPc = "resolved"
HasResult == Resolved /\ IsPresent(selectionInfo)
Pairs == selectionInfo[1].highlightSelection
StartBoundary == windowSelection.range[1].startContainer
EndBoundary == windowSelection.range[1].endContainer

RECURSIVE AncestorsOrSelf(_)
AncestorsOrSelf(node) ==
    IF node = NoNode THEN {} ELSE {node} \cup AncestorsOrSelf(document[node].parent)

Units == {u \in 1..Len(document) : document[u].tagName = "LUMI-SPAN"}

(* The span-rendering unit a node lies in, NoNode if it lies in none.      *)
UnitOf(node) ==
    IF AncestorsOrSelf(node) \cap Units = {} THEN NoNode
    ELSE CHOOSE u \in AncestorsOrSelf(node) \cap Units : TRUE

(* The rendered children of a unit: the elements under its outer span.     *)
RenderedChildren(u) ==
    {m \in 1..Len(document) :
        /\ document[m].tagName # "#text"
        /\ document[m].parent # NoNode
        /\ document[document[m].parent].parent = u}

IsMarker(m) ==
    document[m].classList \cap {CITATION_CLASSNAME, FOOTNOTE_CLASSNAME} # {}

(* The rendered child of its unit that a boundary node lies in.            *)
RenderedChildOf(node) ==
    CHOOSE m \in RenderedChildren(UnitOf(node)) : m \in AncestorsOrSelf(node)

(* The offset of a boundary in the text of its unit: the characters        *)
(* rendered before the place of the boundary.                              *)
CharacterOffset(node) ==
    Cardinality({m \in RenderedChildren(UnitOf(node)) :
                    m < RenderedChildOf(node) /\ ~IsMarker(m)})

(* The boundary's container is one of the rendered children of its unit.   *)
InCharacterContainer(node) ==
    /\ UnitOf(node) # NoNode
    /\ document[node].parent \in RenderedChildren(UnitOf(node))

(* C13: in every non-null result the first pair starts at the character    *)
(* offset of the selection's start boundary and the last pair ends at the  *)
(* character offset of the end boundary plus one; characters i..j of one   *)
(* unit give the single pair {i, j+1}. Stated for boundaries that lie in   *)
(* rendered children of their units.                                       *)
C13_PairsMeetTheBoundaries ==
    (HasResult /\ InCharacterContainer(StartBoundary)
               /\ InCharacterContainer(EndBoundary)) =>
        /\ Len(Pairs) >= 1
        /\ Pairs[1].position.startIndex = CharacterOffset(StartBoundary)
        /\ Pairs[Len(Pairs)].position.endIndex = CharacterOffset(EndBoundary) + 1
        /\ UnitOf(StartBoundary) = UnitOf(EndBoundary) => Len(Pairs) = 1

(* The start and end units are different children of one container.        *)
SiblingUnits ==
    /\ UnitOf(StartBoundary) # UnitOf(EndBoundary)
    /\ document[UnitOf(StartBoundary)].parent = document[UnitOf(EndBoundary)].parent

(* The units from the start unit to the end unit, in sibling order.        *)
UnitsInRange ==
    SelectSeq([n \in 1..Len(document) |-> n],
              LAMBDA n : /\ n \in Units
                         /\ document[n].parent = document[UnitOf(StartBoundary)].parent
                         /\ UnitOf(StartBoundary) <= n
                         /\ n <= UnitOf(EndBoundary))

IdsOf(units) == [k \in 1..Len(units) |-> document[units[k]].id]
PairIds == [k \in 1..Len(Pairs) |-> Pairs[k].spanId]

(* C14 as stated: one pair for each unit from the start unit to the end    *)
(* unit, whether or not the unit has an id.                                *)
C14_OnePairPerUnit ==
    (HasResult /\ SiblingUnits) => PairIds = IdsOf(UnitsInRange)

(* C14: when the selection starts and ends in different units that are     *)
(* siblings in one container, the result lists exactly one pair for each   *)
(* unit with a non-empty id from the start unit to the end unit inclusive, *)
(* in sibling order; other sibling elements and units without an id get no *)
(* pair, and no unit is listed twice.                                      *)
C14_OnePairPerIdentifiedUnit ==
    (HasResult /\ SiblingUnits) =>
        PairIds = SelectSeq(IdsOf(UnitsInRange), LAMBDA id : id # "")

(* Between the start and the end unit lies a unit without an id: the start *)
(* and the end unit are listed, the unit between them is not.              *)
C14_Witness ==
    /\ HasResult
    /\ SiblingUnits
    /\ Len(UnitsInRange) = 3
    /\ document[UnitsInRange[2]].id = ""
    /\ Len(Pairs) = 2

(* The length of element.textContent: every text node inside holds one     *)
(* character.                                                              *)
UnitTextLength(u) ==
    Cardinality({n \in 1..Len(document) :
                    document[n].tagName = "#text" /\ u \in AncestorsOrSelf(n)})

PairOf(u) == CHOOSE k \in 1..Len(Pairs) : Pairs[k].spanId = document[u].id

(* The listed units that are neither the start unit nor the end unit.      *)
MiddleUnits ==
    {u \in Units : /\ document[u].id \in {Pairs[k].spanId : k \in 1..Len(Pairs)}
                   /\ u # UnitOf(StartBoundary)
                   /\ u # UnitOf(EndBoundary)}

IndexAmongChildren(node) ==
    Cardinality({m \in RenderedChildren(UnitOf(node)) : m < document[node].parent})

MarkersBefore(node) ==
    Cardinality({m \in RenderedChildren(UnitOf(node)) :
                    m < document[node].parent /\ IsMarker(m)})

(* C16: the character offset computed for a selection boundary is the      *)
(* index of the boundary's character container among the rendered children *)
(* of its unit minus the number of citation and footnote marker elements   *)
(* that precede it among those children.                                   *)
C16_OffsetSkipsMarkers ==
    HasResult =>
        /\ InCharacterContainer(StartBoundary) =>
               Pairs[1].position.startIndex
                   = IndexAmongChildren(StartBoundary) - MarkersBefore(StartBoundary)
        /\ (InCharacterContainer(EndBoundary)
              /\ Pairs[Len(Pairs)].spanId = document[UnitOf(EndBoundary)].id) =>
               Pairs[Len(Pairs)].position.endIndex - 1
                   = IndexAmongChildren(EndBoundary) - MarkersBefore(EndBoundary)

(* A footnote marker precedes the character the selection starts in.       *)
C16_Witness ==
    /\ HasResult
    /\ InCharacterContainer(StartBoundary)
    /\ ~IsMarker(document[StartBoundary].parent)
    /\ MarkersBefore(StartBoundary) = 1
    /\ \E m \in RenderedChildren(UnitOf(StartBoundary)) :
           FOOTNOTE_CLASSNAME \in document[m].classList
    /\ IndexAmongChildren(StartBoundary) = 1
    /\ Pairs[1].position.startIndex = 0

HasIdentifiedUnit(node) == UnitOf(node) # NoNode /\ document[UnitOf(node)].id # ""

HasPlainSpan(node) == \E a \in AncestorsOrSelf(node) : document[a].tagName = "SPAN"

(* C17: getSelectionInfo returns null, and raises no error, whenever the   *)
(* trimmed text of the selection is empty, or there is no range, or the    *)
(* start or the end boundary has no ancestor unit with a non-empty id, or  *)
(* the start boundary has no ancestor plain span element; in every other   *)
(* case it returns a result.                                               *)
C17_NullExactlyWhenUnusable ==
    Resolved =>
        /\ selectionInfo = Absent \/ HasResult
        /\ selectionInfo = Absent <=>
               \/ windowSelection.text \in {"", " "}
               \/ windowSelection.range = Absent
               \/ ~HasIdentifiedUnit(StartBoundary)
               \/ ~HasIdentifiedUnit(EndBoundary)
               \/ ~HasPlainSpan(StartBoundary)

(* Text is selected between two units that have ids, from the element of   *)
(* the first one, which no plain span encloses: the result is null.        *)
C17_Witness ==
    /\ Resolved
    /\ windowSelection.text = " is "
    /\ windowSelection.range # Absent
    /\ HasIdentifiedUnit(StartBoundary)
    /\ HasIdentifiedUnit(EndBoundary)
    /\ ~HasPlainSpan(StartBoundary)
    /\ selectionInfo = Absent

-----------------------------------------------------------------------------
(* Claims about the answer-driven store.                                   *)

(* The answers the store was filled from: those of the latest              *)
(* populateFromAnswers (none after a clearHighlights), then those added.   *)
RECURSIVE AnswersInEffect(_)
AnswersInEffect(k) ==
    IF k = 0 THEN <<>>
    ELSE IF calls[k].op = "populateFromAnswers" THEN calls[k].arg
    ELSE IF calls[k].op = "clearHighlights" THEN <<>>
    ELSE AnswersInEffect(k - 1) \o calls[k].arg

Descriptors(answer) ==
    IF answer.request.highlightedSpans = Absent THEN <<>>
    ELSE answer.request.highlightedSpans[1]

(* The (answer, descriptor) pairs of a list of answers that refer to a     *)
(* span, as places <<i, j>>.                                               *)
PairsReferring(answers, spanId) ==
    {pair \in UNION { {<<i, j>> : j \in 1..Len(Descriptors(answers[i]))} :
                        i \in 1..Len(answers) } :
        Descriptors(answers[pair[1]])[pair[2]].spanId = spanId}

(* The place of a pair among those of its span: answer list order, then    *)
(* descriptor order within the answer.                                     *)
PairRank(answers, spanId, pair) ==
    Cardinality({q \in PairsReferring(answers, spanId) :
                    q[1] < pair[1] \/ (q[1] = pair[1] /\ q[2] <= pair[2])})

(* The store holds, for every span, one highlight per pair referring to    *)
(* it, in pair order.                                                      *)
HoldsExactly(answers) ==
    /\ DOMAIN highlightedSpans = {s \in StoreSpanIds : PairsReferring(answers, s) # {}}
    /\ \A s \in DOMAIN highlightedSpans :
          /\ Len(highlightedSpans[s]) = Cardinality(PairsReferring(answers, s))
          /\ \A pair \in PairsReferring(answers, s) :
                LET h == highlightedSpans[s][PairRank(answers, s, pair)]
                    answer == answers[pair[1]]
                    descriptor == Descriptors(answer)[pair[2]]
                IN  /\ h.color = "green"
                    /\ h.spanId = s
                    /\ h.metadata = Some([answer |-> answer])
                    /\ h.position = descriptor.position

(* C18: after populateFromAnswers(L) the content of the store depends only *)
(* on L: every highlight present before the call is gone, so a second      *)
(* populate with another list discards the first population.               *)
C18_PopulateDependsOnListOnly ==
    (calls # <<>> /\ LastCall.op = "populateFromAnswers") =>
        /\ HoldsExactly(LastCall.arg)
        /\ \A s \in DOMAIN highlightedSpans :
              \A k \in 1..Len(highlightedSpans[s]) :
                 \E i \in 1..Len(LastCall.arg) :
                    highlightedSpans[s][k].metadata = Some([answer |-> LastCall.arg[i]])

(* A populate from two answers is followed by a populate from another      *)
(* answer: nothing of the first population is left.                        *)
C18_Witness ==
    /\ Len(calls) = 2
    /\ calls[1].op = "populateFromAnswers"
    /\ Len(calls[1].arg) = 2
    /\ calls[2].op = "populateFromAnswers"
    /\ Len(calls[2].arg) = 1
    /\ calls[2].arg[1].id = "ans-2"
    /\ \A i \in 1..2 : calls[1].arg[i].id \in {"ans-1", "ans-4"}
    /\ DOMAIN highlightedSpans = {"span-1"}
    /\ Len(highlightedSpans["span-1"]) = 1

(* C19: the store holds exactly one highlight per (answer, descriptor)     *)
(* pair: per span as many as there are descriptors referring to it, in     *)
(* answer list order and descriptor order within an answer, each with the  *)
(* fixed color, its answer as metadata and the descriptor's range or none; *)
(* an answer without descriptors adds nothing.                             *)
C19_OneHighlightPerDescriptor == HoldsExactly(AnswersInEffect(Len(calls)))

(* Two answers refer to span-2, one of them twice, and a third answer has  *)
(* no descriptors.                                                         *)
C19_Witness ==
    /\ Len(calls) = 2
    /\ calls[1].op = "populateFromAnswers"
    /\ [i \in 1..Len(calls[1].arg) |-> calls[1].arg[i].id] = <<"ans-3", "ans-4">>
    /\ calls[2].op = "addAnswer"
    /\ calls[2].arg[1].id = "ans-1"
    /\ "span-2" \in DOMAIN highlightedSpans
    /\ Len(highlightedSpans["span-2"]) = 3
    /\ highlightedSpans["span-2"][1].position = Some(Position(1, 3))
    /\ highlightedSpans["span-2"][3].metadata[1].answer.id = "ans-1"

-----------------------------------------------------------------------------
(* Claims about the document index.                                        *)

Queried == docPc = "queried"

(* The ids of the spans of list items, those of nested sub-lists included. *)
RECURSIVE ListItemsSpanIds(_)
ListItemsSpanIds(listItems) ==
    UNION {{item.spans[j].id : j \in 1..Len(item.spans)} \cup
           (IF IsPresent(item.subListContent)
            THEN ListItemsSpanIds(item.subListContent[1].listItems)
            ELSE {}) :
           item \in {listItems[i] : i \in 1..Len(listItems)}}

ContentSpanIds(content) ==
    (IF IsPresent(content.textContent)
     THEN {content.textContent[1].spans[j].id :
              j \in 1..Len(content.textContent[1].spans)}
     ELSE {}) \cup
    (IF IsPresent(content.listContent)
     THEN ListItemsSpanIds(content.listContent[1].listItems)
     ELSE {}) \cup
    (IF IsPresent(content.imageContent)
        /\ IsPresent(content.imageContent[1].caption)
     THEN {content.imageContent[1].caption[1].id}
     ELSE {})

ContentsSpanIds(contents) ==
    UNION {ContentSpanIds(contents[i]) : i \in 1..Len(contents)}

(* The sections of a list and all the sections below them.                 *)
RECURSIVE SectionsBelow(_)
SectionsBelow(sections) ==
    UNION {{sections[i]} \cup SectionsBelow(sections[i].subSections) :
           i \in 1..Len(sections)}

(* A section contains a span when the span lies in its own contents or in  *)
(* those of a section below it.                                            *)
Contains(section, spanId) ==
    \E below \in SectionsBelow(<<section>>) :
        spanId \in ContentsSpanIds(below.contents)

(* The sections containing the span of which no subsection contains it.    *)
NearestSections(doc, spanId) ==
    {section \in SectionsBelow(doc.sections) :
        /\ Contains(section, spanId)
        /\ \A i \in 1..Len(section.subSections) :
               ~Contains(section.subSections[i], spanId)}

(* C20: getSectionForSpan returns the nearest section containing the span  *)
(* (the subsection for a span of a subsection, the top-level section for a *)
(* span of its own contents, lists included), and undefined for a span of  *)
(* the abstract and for an unknown id.                                     *)
C20_NearestContainingSection ==
    Queried =>
        LET nearest == NearestSections(lumiDoc, queriedSpanId)
        IN  /\ nearest = {} => sectionForSpan = Absent
            /\ nearest # {} => sectionForSpan \in {Some(n) : n \in nearest}
            /\ queriedSpanId \in ContentsSpanIds(lumiDoc.abstract.contents)
                   => sectionForSpan = Absent
            /\ queriedSpanId = NonExistentSpanId => sectionForSpan = Absent

(* A span of the nested sub-list of a subsection is queried and the        *)
(* subsection comes back, while another span lies in the abstract.         *)
C20_Witness ==
    /\ Queried
    /\ ContentsSpanIds(lumiDoc.abstract.contents) # {}
    /\ \E top \in {lumiDoc.sections[i] : i \in 1..Len(lumiDoc.sections)} :
         \E sub \in SectionsBelow(top.subSections) :
            /\ queriedSpanId \in ContentsSpanIds(sub.contents)
            /\ IsPresent(sub.contents[2].listContent)
            /\ queriedSpanId \in
                   ListItemsSpanIds(sub.contents[2].listContent[1].listItems[1]
                                        .subListContent[1].listItems)
            /\ sectionForSpan = Some(sub)
            /\ sub # top

(* The ids of the spans met by walking the abstract, the sections and      *)
(* subsections with their lists and captions, the references and the       *)
(* footnotes.                                                              *)
ReachableSpanIds(doc) ==
    ContentsSpanIds(doc.abstract.contents)
    \cup UNION {ContentsSpanIds(section.contents) :
                   section \in SectionsBelow(doc.sections)}
    \cup {doc.references[i].span.id : i \in 1..Len(doc.references)}
    \cup (IF IsPresent(doc.footnotes)
          THEN {doc.footnotes[1][i].span.id : i \in 1..Len(doc.footnotes[1])}
          ELSE {})

LookedUp == docPc = "looked up"

-----------------------------------------------------------------------------
(* Claims about the collapse manager.                                      *)

(* C22: right after collapseAllAnswersExcept(x), whatever calls came       *)
(* before, answer x is expanded and every other answer the manager knows   *)
(* is collapsed.                                                           *)
C22_OnlyTheKeptAnswerIsExpanded ==
    lastCollapseCall.op = "collapseAllAnswersExcept" =>
        /\ ~isAnswerCollapsed(answerCollapseState, lastCollapseCall.answerId)
        /\ \A answerId \in DOMAIN answerCollapseState :
               answerId # lastCollapseCall.answerId =>
                   isAnswerCollapsed(answerCollapseState, answerId)

(* collapseAllAnswersExcept was called after two other calls, on a manager *)
(* that knows three answers.                                               *)
C22_Witness ==
    /\ lastCollapseCall.op = "collapseAllAnswersExcept"
    /\ collapseCallCount >= 3
    /\ DOMAIN answerCollapseState = CollapseAnswerIds

-----------------------------------------------------------------------------
(* Claims about the offsets of rendered spans.                             *)

(* The place, in the DOM of a rendered span, of the first node of the j-th *)
(* shown unit: the root, the container, the <lumi-span> and its outer span *)
(* come first.                                                             *)
RECURSIVE KidPlace(_, _)
KidPlace(shown, j) ==
    IF j = 1 THEN 5
    ELSE KidPlace(shown, j - 1)
         + Len(KidNodes(kidOfUnit(shown[j - 1].unit), 4, 0))

(* C23: in a span rendered by the compositor, the offset computed for a    *)
(* boundary in the text node of the element of character c is the index of *)
(* c in the span's text.                                                   *)
C23_OffsetsAreInTextSpace ==
    pc = "rendered" =>
        LET shown == shownUnits(renderedContent)
            dom == renderedDom(span, renderedContent)
        IN  \A j \in 1..Len(shown) :
                shown[j].unit.type = "char" =>
                    getOffsetInLumiSpan(dom, KidPlace(shown, j) + 1)
                        = shown[j].at

-----------------------------------------------------------------------------
(* Claims about the place of the insertions among the emitted units.       *)

(* The indices of the characters the p-th emitted unit holds: its own      *)
(* index for a character unit (shown or not), the indices of its text for  *)
(* an equation unit, none for an insertion.                                *)
CharactersOf(p) ==
    LET e == renderedContent[p]
    IN  IF e.unit.type = "equation"
        THEN (e.at - Len(e.unit.text) + 1)..e.at
        ELSE IF e.unit.type = "insertion" THEN {}
        ELSE {e.at}

EmittedInsertions ==
    {p \in 1..Len(renderedContent) : renderedContent[p].unit.type = "insertion"}

(* The offset the insertion emitted p-th is anchored at: the start of the  *)
(* tag it comes from.                                                      *)
AnchorOf(p) == span.innerTags[renderedContent[p].unit.src].position.startIndex

(* C24 as claimed: an insertion anchored at offset i is emitted after the  *)
(* units of all characters with index less than i and before the unit that *)
(* contains character i, also inside and at the end of a math run emitted  *)
(* as one equation unit.                                                   *)
C24_InsertionsBetweenCharacters ==
    Rendered =>
        \A p \in EmittedInsertions : \A q \in 1..Len(renderedContent) :
            /\ (\E c \in CharactersOf(q) : c < AnchorOf(p)) => q < p
            /\ AnchorOf(p) \in CharactersOf(q) => p < q

(* C24 as amended: an insertion anchored at offset i is emitted before the *)
(* unit that contains character i and after every unit all of whose        *)
(* characters have an index less than i; inside a math run emitted as one  *)
(* equation unit, and at its last character, that is before the equation.  *)
C24_InsertionsBeforeTheUnitOfTheirCharacter ==
    Rendered =>
        \A p \in EmittedInsertions : \A q \in 1..Len(renderedContent) :
            /\ (CharactersOf(q) # {} /\ \A c \in CharactersOf(q) : c < AnchorOf(p))
                   => q < p
            /\ AnchorOf(p) \in CharactersOf(q) => p < q

(* An insertion anchored at the last character of an equation of two       *)
(* characters, emitted before the equation.                                *)
C24_Witness ==
    /\ Rendered
    /\ \E p \in EmittedInsertions : \E q \in 1..Len(renderedContent) :
          /\ renderedContent[q].unit.type = "equation"
          /\ Len(renderedContent[q].unit.text) = 2
          /\ AnchorOf(p) = renderedContent[q].at
          /\ p < q

-----------------------------------------------------------------------------
(* Claims about the ranges of the pairs.                                   *)

(* The unit the k-th pair names.                                           *)
UnitOfPair(k) == CHOOSE u \in Units : document[u].id = Pairs[k].spanId

(* The number of characters a unit renders: its rendered children that are *)
(* no markers.                                                             *)
UnitCharacterCount(u) ==
    Cardinality({m \in RenderedChildren(u) : ~IsMarker(m)})

C26_LastPairIsOfTheEndUnit ==
    HasResult =>
        /\ Len(Pairs) >= 1
        /\ Pairs[Len(Pairs)].spanId = document[UnitOf(EndBoundary)].id

-----------------------------------------------------------------------------
(* Claims about the text the compositor emits.                             *)

(* The characters held by the emitted units from the p-th on, in output    *)
(* order: one per shown character unit, the text of an equation unit.      *)
RECURSIVE EmittedTextFrom(_)
EmittedTextFrom(p) ==
    IF p > Len(renderedContent) THEN <<>>
    ELSE LET unit == renderedContent[p].unit
         IN  (IF unit.type = "char" THEN <<unit.char>>
              ELSE IF unit.type = "equation" THEN unit.text
              ELSE <<>>)
             \o EmittedTextFrom(p + 1)

(* Character i lies under a flattened reference-like tag.                  *)
UnderReferenceLikeTag(i) ==
    \E k \in 1..Len(AllInnerTags) :
        /\ AllInnerTags[k].tagName \in {REFERENCE, SPAN_REFERENCE, FOOTNOTE}
        /\ Covers(AllInnerTags[k].position, i)

(* The text without the characters under reference-like tags.              *)
TextOutsideReferences ==
    LET kept == SelectSeq([i \in 1..TextLength |-> i - 1],
                          LAMBDA i : ~UnderReferenceLikeTag(i))
    IN  [k \in 1..Len(kept) |-> span.text[kept[k] + 1]]

(* C27: the characters of the emitted character and equation units, in     *)
(* output order, are the span's text with exactly the characters under a   *)
(* reference-like tag removed.                                             *)
C27_TextIsConserved ==
    Rendered => EmittedTextFrom(1) = TextOutsideReferences

-----------------------------------------------------------------------------
(* Claims about the reader's requests and the temporary answers.           *)

InFlight(request) ==
    /\ request \in DOMAIN requests
    /\ requests[request].pc = "awaiting"

Settled(request) ==
    /\ request \in DOMAIN requests
    /\ requests[request].pc = "settled"

(* The temporary answer made for the request is in the list.               *)
HasTemporaryAnswer(request) ==
    \E i \in DOMAIN temporaryAnswers : temporaryAnswers[i].request = request

TemporaryAnswersOf(answers) == {answers[i] : i \in DOMAIN answers}

(* Every temporary answer that leaves the list in a step is the one of a   *)
(* request that settles in that step.                                      *)
CompletionRemovesItsOwn ==
    \A answer \in TemporaryAnswersOf(temporaryAnswers) :
        answer \notin TemporaryAnswersOf(temporaryAnswers') =>
            /\ InFlight(answer.request)
            /\ requests'[answer.request].pc = "settled"

EmptyExactlyWhenNoneInFlight ==
    (temporaryAnswers = <<>>) <=> (\A request \in DOMAIN requests : ~InFlight(request))

(* C28: every temporary answer added by handleDefine, handleAsk or         *)
(* fetchPersonalSummary is removed once its backend call settles, on       *)
(* success and on failure; each completion removes only its own temporary  *)
(* answer; the list of temporary answers is empty exactly when no request  *)
(* is in flight.                                                           *)
C28_TemporaryAnswersFollowTheirRequests ==
    /\ \A request \in 1..MaxRequests :
           InFlight(request) ~> (Settled(request) /\ ~HasTemporaryAnswer(request))
    /\ [][CompletionRemovesItsOwn]_vars
    /\ [](EmptyExactlyWhenNoneInFlight)

-----------------------------------------------------------------------------
(* Claims about the home gallery.                                          *)

(* The subscriptions of the paper that still deliver snapshots.            *)
LiveSubscriptions(paperId) ==
    {i \in DOMAIN subscriptions :
        subscriptions[i].paperId = paperId /\ subscriptions[i].active}

(* A paper is loading while a subscription waits for its final status.     *)
LoadingPapers == {paperId \in GalleryPapers : LiveSubscriptions(paperId) # {}}

MetadataRequestPending == \E i \in DOMAIN imports : imports[i].pc = "awaiting"

(* C29: once a snapshot with status SUCCESS, an error status or TIMEOUT    *)
(* has been handled for a paper, no listener is registered for that paper  *)
(* and its subscription has been cancelled, whatever the order of          *)
(* snapshots, registrations and re-registrations; and isLoadingDocument    *)
(* is false when no paper is loading and no metadata request is pending.   *)
C29_FinalSnapshotEndsTheListener ==
    /\ handledSnapshot.loadingStatus \in FinalStatuses =>
           /\ handledSnapshot.paperId \notin DOMAIN unsubscribeListeners
           /\ ~subscriptions[handledSnapshot.subscription].active
           /\ LiveSubscriptions(handledSnapshot.paperId) = {}
    /\ (LoadingPapers = {} /\ ~MetadataRequestPending) => ~isLoadingDocument

(* A final snapshot was handled for a paper that had been registered       *)
(* again, and the gallery is no longer loading.                            *)
C29_Witness ==
    /\ handledSnapshot.loadingStatus \in FinalStatuses
    /\ handledSnapshot.subscription > 1
    /\ \E i \in 1..(handledSnapshot.subscription - 1) :
           subscriptions[i].paperId = handledSnapshot.paperId
    /\ LoadingPapers = {}
    /\ \E i \in DOMAIN imports : imports[i].pc = "metadata"
    /\ ~MetadataRequestPending
    /\ ~isLoadingDocument

-----------------------------------------------------------------------------
(* Claims about the floating panel service.                                *)

(* The placement the props of a show call specify, the defaults where      *)
(* they specify none.                                                      *)
SpecifiedAnchorCorner(props) ==
    IF IsPresent(props.anchorCorner) THEN props.anchorCorner[1]
    ELSE ANCHOR_CORNER_DEFAULT

SpecifiedMenuCorner(props) ==
    IF IsPresent(props.menuCorner) THEN props.menuCorner[1]
    ELSE MENU_CORNER_DEFAULT

(* C30: while the panel is visible its anchorCorner, menuCorner and        *)
(* hasFlatContainer are those of the props of the most recent show call,   *)
(* or the defaults where the props specify none; nothing set by an         *)
(* earlier show call is retained, also when show follows show without a   *)
(* hide between them.                                                      *)
C30_PlacementIsOfTheLatestShow ==
    isVisible =>
        /\ anchorCorner = SpecifiedAnchorCorner(contentProps[1])
        /\ menuCorner = SpecifiedMenuCorner(contentProps[1])
        /\ hasFlatContainer = contentProps[1].hasFlatContainer

=============================================================================
